---- MODULE Spec2Model ----
(***************************************************************************)
(* State-machine model of the wordcosmo2 simulation engine                 *)
(* (src/src/core/mod.rs, src/src/spatial/mod.rs, src/src/types.rs,         *)
(* src/src/config.rs).                                                     *)
(*                                                                         *)
(* f32 quantities are modelled as exact rationals [n |-> num, d |-> den]   *)
(* in lowest terms, so that "equal within floating tolerance" becomes      *)
(* plain equality.  Texts are sequences of one-character strings.          *)
(* The random stream (StdRng) is modelled as a nondeterministic choice     *)
(* from small sets at every gen_range call.                                *)
(***************************************************************************)
EXTENDS Integers, Sequences, FiniteSets, TLC

\* ------------------------------------------------------------------------
\* f32 arithmetic, idealised as exact rational arithmetic
\* ------------------------------------------------------------------------

Abs(x) == IF x < 0 THEN -x ELSE x

RECURSIVE Gcd(_, _)
Gcd(a, b) == IF b = 0 THEN a ELSE Gcd(b, a % b)

\* The integers of TLC are 32 bits wide.  A result whose numerator
\* or denominator would leave that range is NaR ("not a rational"); NaR
\* is absorbing in every operation, and a step that would store NaR in the
\* world is not taken (Exact, below), so that only behaviours computed
\* exactly are explored.
NaR == [n |-> 0, d |-> 0]

IsNaR(a) == a.d = 0

Limit == 2^30 - 1

\* |a * b| <= Limit
Fits(a, b) == a = 0 \/ b = 0 \/ Abs(a) <= Limit \div Abs(b)

\* the rational n/d (d # 0) in lowest terms with a positive denominator
Rat(n, d) ==
  LET g == Gcd(Abs(n), Abs(d))
      s == IF d < 0 THEN -1 ELSE 1
  IN  IF d = 0 THEN NaR
      ELSE IF n = 0 THEN [n |-> 0, d |-> 1]
      ELSE [n |-> s * (n \div g), d |-> s * (d \div g)]

I(k) == [n |-> k, d |-> 1]

Zero == I(0)

One == I(1)

RNeg(a) == [n |-> -a.n, d |-> a.d]

RAdd(a, b) ==
  IF IsNaR(a) \/ IsNaR(b) THEN NaR
  ELSE LET g == Gcd(a.d, b.d)
           p == b.d \div g
           q == a.d \div g
       IN  IF Fits(a.n, p) /\ Fits(b.n, q) /\ Fits(q, b.d)
           THEN Rat(a.n * p + b.n * q, q * b.d)
           ELSE NaR

RSub(a, b) == RAdd(a, RNeg(b))

RMul(a, b) ==
  IF IsNaR(a) \/ IsNaR(b) THEN NaR
  ELSE IF a.n = 0 \/ b.n = 0 THEN Zero
  ELSE LET g1 == Gcd(Abs(a.n), b.d)
           g2 == Gcd(Abs(b.n), a.d)
       IN  IF Fits(a.n \div g1, b.n \div g2) /\ Fits(a.d \div g2, b.d \div g1)
           THEN [n |-> (a.n \div g1) * (b.n \div g2), d |-> (a.d \div g2) * (b.d \div g1)]
           ELSE NaR

\* 1/a; the division by zero (inf in f32) is NaR
RInv(a) ==
  IF a.n = 0 THEN NaR
  ELSE IF a.n < 0 THEN [n |-> -a.d, d |-> -a.n]
  ELSE [n |-> a.d, d |-> a.n]

RDiv(a, b) == RMul(a, RInv(b))

\* n1/d1 < n2/d2 for positive denominators, by comparing the integer
\* parts and then the reciprocals of the fractional parts, so that no
\* product is formed
RECURSIVE FracLt(_, _, _, _)
FracLt(n1, d1, n2, d2) ==
  LET q1 == n1 \div d1
      q2 == n2 \div d2
      r1 == n1 % d1
      r2 == n2 % d2
  IN  IF q1 # q2 THEN q1 < q2
      ELSE IF r2 = 0 THEN FALSE
      ELSE IF r1 = 0 THEN TRUE
      ELSE FracLt(d2, r2, d1, r1)

\* the comparisons; like those of a NaN, every comparison with NaR is false
RLt(a, b) == ~IsNaR(a) /\ ~IsNaR(b) /\ FracLt(a.n, a.d, b.n, b.d)

RLe(a, b) == ~IsNaR(a) /\ ~IsNaR(b) /\ (a = b \/ RLt(a, b))

RGt(a, b) == RLt(b, a)

RGe(a, b) == RLe(b, a)

RAbs(a) == [n |-> Abs(a.n), d |-> a.d]

\* f32::min / f32::max
RMin(a, b) == IF IsNaR(a) \/ IsNaR(b) THEN NaR ELSE IF RLt(b, a) THEN b ELSE a

RMax(a, b) == IF IsNaR(a) \/ IsNaR(b) THEN NaR ELSE IF RLt(a, b) THEN b ELSE a

\* f32::floor() as i32
RFloor(a) == IF IsNaR(a) THEN 0 ELSE a.n \div a.d

\* integer square root (floor), by bisection on [lo, hi]
RECURSIVE ISqrtIn(_, _, _)
ISqrtIn(k, lo, hi) ==
  IF lo >= hi THEN lo
  ELSE LET mid == (lo + hi + 1) \div 2
       IN  IF mid * mid <= k THEN ISqrtIn(k, mid, hi) ELSE ISqrtIn(k, lo, mid - 1)

ISqrt(k) == ISqrtIn(k, 0, IF k < 32767 THEN k ELSE 32767)

\* f32::sqrt: exact on squares of rationals (the only arguments the
\* bounded inputs below produce); the floor of the root of numerator and
\* denominator otherwise
RSqrt(a) == Rat(ISqrt(a.n), ISqrt(a.d))

\* ------------------------------------------------------------------------
\* types.rs: Vec2
\* ------------------------------------------------------------------------

Vec2(x, y) == [x |-> x, y |-> y]

VZERO == Vec2(Zero, Zero)

NaV == Vec2(NaR, NaR)

VAdd(a, b) == Vec2(RAdd(a.x, b.x), RAdd(a.y, b.y))

VSub(a, b) == Vec2(RSub(a.x, b.x), RSub(a.y, b.y))

VScale(a, s) == Vec2(RMul(a.x, s), RMul(a.y, s))

length_sq(v) == RAdd(RMul(v.x, v.x), RMul(v.y, v.y))

length(v) ==
  IF v.y = Zero THEN RAbs(v.x)
  ELSE IF v.x = Zero THEN RAbs(v.y)
  ELSE RSqrt(length_sq(v))

normalize(v) ==
  LET scaled(len) == IF RGt(len, Zero) THEN Vec2(RDiv(v.x, len), RDiv(v.y, len)) ELSE VZERO
  IN  scaled(length(v))

dot(a, b) == RAdd(RMul(a.x, b.x), RMul(a.y, b.y))

\* ------------------------------------------------------------------------
\* config.rs
\* ------------------------------------------------------------------------

\* DT = 1.0 / SIM_HZ
SIM_HZ == 60

DT == Rat(1, SIM_HZ)

WORLD_HALF_WIDTH == I(120)

WORLD_HALF_HEIGHT == I(60)

SPATIAL_CELL_SIZE == I(16)

SPATIAL_QUERY_RANGE_GRAVITY == 5

SPATIAL_QUERY_RANGE_COLLISION == 1

GRAVITY_G == I(80)

GRAVITY_SOFTENING == I(4)

GRAVITY_CUTOFF == I(96)

GRAVITY_CUTOFF_FADE_START == Rat(7, 10)

GRAVITY_DV_MAX == Rat(5, 2)

GRAVITY_MIN_MASS == Rat(1, 5)

BOUNCE_DAMP == Rat(9, 10)

MERGE_REL_SPEED_MAX == I(6)

SPLIT_REL_SPEED_MIN == I(14)

TIDAL_MASS_RATIO == I(6)

SPLIT_PARTS_MIN == 2

SPLIT_PARTS_MAX == 4

SPLIT_RADIAL_SPEED == I(8)

WEATHERING_RATE == Rat(2, 100)

AUTOGENESIS_RATE == Rat(8, 100)

MIN_VISIBLE_MASS == Rat(1, 5)

WORD_RADIUS_BASE == Rat(12, 10)

WORD_RADIUS_SCALE == Rat(6, 100)

SUN_PULSE_RADIUS == I(32)

SUN_PULSE_STRENGTH == I(14)

EFFECT_TTL == Rat(6, 10)

\* types.rs
TEXT_MAX_DRAW == 120

TRAIL_LEN == 10

\* core/mod.rs: what snapshot shows in place of the join separator
WORD_JOIN_DISPLAY == "-"

\* The join separator config::WORD_JOIN_SEP: one character that is not
\* part of any word typed by the user.
WORD_JOIN_SEP == "|"

\* a whitespace character (what str::trim strips)
SPACE == " "

\* ------------------------------------------------------------------------
\* Bounds of the model.  INIT_WORDS, K_VISIBLE_MIN, K_VISIBLE_MAX and
\* EFFECT_CAPACITY are the program's constants of the same name scaled
\* down (24, 40, 400 and 512 in config.rs) so that the population floor,
\* the population ceiling and the wrap of the effect ring are reached.
\* ------------------------------------------------------------------------

INIT_WORDS == 2

K_VISIBLE_MIN == 2

K_VISIBLE_MAX == 2

EFFECT_CAPACITY == 16

MaxTicks == 2

MaxAdds == 1

MaxSuns == 1

\* the longest component list and the largest part count given to split_groups
MaxComponents == 4

MaxPartsAsked == 6

\* the longest run of integrate calls on one word: twice TRAIL_LEN and one more
MaxRecords == 21

\* ------------------------------------------------------------------------
\* Text helpers (core/mod.rs: merge_text, components, split_groups)
\* ------------------------------------------------------------------------

merge_text(a, b) ==
  IF a = <<>> THEN b
  ELSE IF b = <<>> THEN a
  ELSE a \o <<WORD_JOIN_SEP>> \o b

\* str::split(sep): the segments between separators, empty ones included
RECURSIVE SplitAt(_, _, _)
SplitAt(text, i, cur) ==
  IF i > Len(text) THEN <<cur>>
  ELSE IF text[i] = WORD_JOIN_SEP THEN <<cur>> \o SplitAt(text, i + 1, <<>>)
  ELSE SplitAt(text, i + 1, Append(cur, text[i]))

split(text) == SplitAt(text, 1, <<>>)

\* str::trim
RECURSIVE trim_start(_)
trim_start(s) ==
  IF s # <<>> /\ Head(s) = SPACE THEN trim_start(Tail(s)) ELSE s

RECURSIVE trim_end(_)
trim_end(s) ==
  IF s # <<>> /\ s[Len(s)] = SPACE THEN trim_end(SubSeq(s, 1, Len(s) - 1)) ELSE s

trim(s) == trim_end(trim_start(s))

IsNonEmpty(s) == s # <<>>

components(text) ==
  LET segs == split(text)
  IN  SelectSeq([k \in 1..Len(segs) |-> trim(segs[k])], IsNonEmpty)

\* [String]::join(sep)
RECURSIVE join(_)
join(strs) ==
  IF strs = <<>> THEN <<>>
  ELSE IF Len(strs) = 1 THEN strs[1]
  ELSE strs[1] \o <<WORD_JOIN_SEP>> \o join(Tail(strs))

\* fault model: the last groups take the remainder
GroupTakeLate(len, parts, i) ==
  (len \div parts) + (IF i >= parts - (len % parts) THEN 1 ELSE 0)

\* the number of components group i (0-based) of split_groups takes
GroupTake(len, parts, i) == (len \div parts) + (IF i < len % parts THEN 1 ELSE 0)

\* idx at the start of iteration i of split_groups
RECURSIVE GroupStart(_, _, _)
GroupStart(len, parts, i) ==
  IF i = 0 THEN 0 ELSE GroupStart(len, parts, i - 1) + GroupTake(len, parts, i - 1)

GroupParts(len, parts) ==
  LET atLeast2 == IF parts > 2 THEN parts ELSE 2
  IN  IF atLeast2 < len THEN atLeast2 ELSE len

split_groups(comps, parts) ==
  LET len == Len(comps)
      p   == GroupParts(len, parts)
  IN  [k \in 1..p |->
         join(SubSeq(comps, GroupStart(len, p, k - 1) + 1,
                     GroupStart(len, p, k - 1) + GroupTake(len, p, k - 1)))]

\* ------------------------------------------------------------------------
\* World state (core/mod.rs: struct World).  The diagnostic counters
\* (grav_candidates, gravity_debug, ...) and the scratch buffers
\* (neighbors, acc, positions) carry nothing from one call to the next
\* that the simulation reads, and are not part of the state.
\* ------------------------------------------------------------------------

VARIABLES
  words,          \* Vec<Word>, as a sequence of records
  events,         \* Vec<Event>
  spatial,        \* SpatialHash.cells: cell key -> sequence of 0-based indices
  sun,            \* Option<Sun>: <<>> is None, <<s>> is Some(s)
  effects,        \* Vec<EffectParticle>
  effect_cursor,
  dust_pool,      \* HashMap<String, f32>
  next_id,
  text_index,     \* HashMap<String, WordId>
  word_indices,   \* HashMap<WordId, usize> (0-based)
  pc,             \* the call of World::tick that runs next; "idle" between public operations
  tick_dt,        \* the argument dt of the tick in progress
  ticks,          \* number of tick calls begun
  adds,           \* number of add_word calls
  suns,           \* number of set_sun calls
  last_op         \* record of the last step's inputs and intermediate results

vars == <<words, events, spatial, sun, effects, effect_cursor, dust_pool, next_id,
          text_index, word_indices, pc, tick_dt, ticks, adds, suns, last_op>>

\* the World fields that the private methods below read and write
World == [words |-> words, events |-> events, sun |-> sun, effects |-> effects,
          effect_cursor |-> effect_cursor, dust_pool |-> dust_pool, next_id |-> next_id,
          text_index |-> text_index, word_indices |-> word_indices]

\* HashMap::insert / HashMap::remove
Put(f, k, v) == [x \in (DOMAIN f) \cup {k} |-> IF x = k THEN v ELSE f[x]]

Remove(f, k) == [x \in (DOMAIN f) \ {k} |-> f[x]]

EmptyMap == [x \in {} |-> 0]

Radius(mass_total) == RAdd(WORD_RADIUS_BASE, RMul(mass_total, WORD_RADIUS_SCALE))

SpawnRequest(text, pos, vel, mass_visible, mass_dust) ==
  [text |-> text, pos |-> pos, vel |-> vel,
   mass_visible |-> mass_visible, mass_dust |-> mass_dust]

\* ---- effect pool --------------------------------------------------------
\* An EffectParticle is modelled by its ttl, glyph and color.  Its pos and
\* vel are cosmetic (read only by the renderer) and are left out.

EffectParticle(glyph, color) == [ttl |-> EFFECT_TTL, glyph |-> glyph, color |-> color]

\* fault model: every push appends
push_effect_grow(W, effect) == [W EXCEPT !.effects = Append(@, effect)]

push_effect(W, effect) ==
  IF EFFECT_CAPACITY = 0 THEN W
  ELSE IF Len(W.effects) < EFFECT_CAPACITY
    THEN [W EXCEPT !.effects = Append(@, effect)]
    ELSE LET cur == IF W.effect_cursor >= EFFECT_CAPACITY THEN 0 ELSE W.effect_cursor
         IN  [W EXCEPT !.effects = [@ EXCEPT ![cur + 1] = effect],
                       !.effect_cursor = (cur + 1) % EFFECT_CAPACITY]

RECURSIVE spawn_effect_ring(_, _, _, _)
spawn_effect_ring(W, count, glyph, color) ==
  IF count = 0 THEN W
  ELSE spawn_effect_ring(push_effect(W, EffectParticle(glyph, color)), count - 1, glyph, color)

\* ---- identity indices ---------------------------------------------------

\* text_index.clear(); then for each word in order: insert (a later word
\* with the same text overwrites) and dust_pool.entry(text).or_insert(0.0)
rebuild_text_index(W) ==
  LET texts == {W.words[k].text : k \in 1..Len(W.words)}
      lastOf(t) == CHOOSE k \in 1..Len(W.words) :
                     /\ W.words[k].text = t
                     /\ \A j \in (k + 1)..Len(W.words) : W.words[j].text # t
  IN  [W EXCEPT
         !.text_index = [t \in texts |-> W.words[lastOf(t)].id],
         !.dust_pool  = [t \in (DOMAIN W.dust_pool) \cup texts |->
                           IF t \in DOMAIN W.dust_pool THEN W.dust_pool[t] ELSE Zero]]

\* fault model: word_indices is not cleared before the inserts
rebuild_index_map_keep(W) ==
  LET ids == {W.words[k].id : k \in 1..Len(W.words)}
      lastOf(i) == CHOOSE k \in 1..Len(W.words) :
                     /\ W.words[k].id = i
                     /\ \A j \in (k + 1)..Len(W.words) : W.words[j].id # i
  IN  [W EXCEPT !.word_indices =
         [i \in (DOMAIN W.word_indices) \cup ids |->
            IF i \in ids THEN lastOf(i) - 1 ELSE W.word_indices[i]]]

rebuild_index_map(W) ==
  LET ids == {W.words[k].id : k \in 1..Len(W.words)}
      lastOf(i) == CHOOSE k \in 1..Len(W.words) :
                     /\ W.words[k].id = i
                     /\ \A j \in (k + 1)..Len(W.words) : W.words[j].id # i
  IN  [W EXCEPT !.word_indices = [i \in ids |-> lastOf(i) - 1]]

\* ---- spawn or absorb ----------------------------------------------------

\* fault model: the absorbing word keeps its old mass_total and radius
absorb_into_word_stale(word, req, total_mass) ==
  LET combined_mass == RAdd(word.mass_total, total_mass)
      blend(u, v) == VScale(VAdd(VScale(u, word.mass_total), VScale(v, total_mass)),
                            RInv(combined_mass))
  IN  [word EXCEPT !.vel = IF RGt(combined_mass, Zero) THEN blend(word.vel, req.vel) ELSE @,
                   !.pos = IF RGt(combined_mass, Zero) THEN blend(word.pos, req.pos) ELSE @,
                   !.mass_visible = RAdd(@, req.mass_visible),
                   !.mass_dust = RAdd(@, req.mass_dust)]

\* fault model: the absorbing word keeps the radius it had
absorb_into_word_small(word, req, total_mass) ==
  LET blended(combined_mass) ==
        LET mean(u, v) == VScale(VAdd(VScale(u, word.mass_total), VScale(v, total_mass)),
                                 RInv(combined_mass))
            heavy == RGt(combined_mass, Zero)
        IN  [word EXCEPT !.vel = IF heavy THEN mean(word.vel, req.vel) ELSE @,
                         !.pos = IF heavy THEN mean(word.pos, req.pos) ELSE @]
      added(w) == [w EXCEPT !.mass_visible = RAdd(@, req.mass_visible),
                            !.mass_dust = RAdd(@, req.mass_dust)]
      totalled(w) == [w EXCEPT !.mass_total = RAdd(w.mass_visible, w.mass_dust)]
  IN  totalled(added(blended(RAdd(word.mass_total, total_mass))))

absorb_into_word(word, req, total_mass) ==
  LET blended(combined_mass) ==
        LET mean(u, v) == VScale(VAdd(VScale(u, word.mass_total), VScale(v, total_mass)),
                                 RInv(combined_mass))
            heavy == RGt(combined_mass, Zero)
        IN  [word EXCEPT !.vel = IF heavy THEN mean(word.vel, req.vel) ELSE @,
                         !.pos = IF heavy THEN mean(word.pos, req.pos) ELSE @]
      summed(w, total) == [w EXCEPT !.mass_total = total, !.radius = Radius(total)]
      added(w) == [w EXCEPT !.mass_visible = RAdd(@, req.mass_visible),
                            !.mass_dust = RAdd(@, req.mass_dust)]
      totalled(w) == summed(w, RAdd(w.mass_visible, w.mass_dust))
  IN  totalled(added(blended(RAdd(word.mass_total, total_mass))))

\* positions (1-based) of the words satisfying a test, and the first of them
IndicesWithId(ws, id) == {k \in 1..Len(ws) : ws[k].id = id}

IndicesWithText(ws, text) == {k \in 1..Len(ws) : ws[k].text = text}

First(S) == CHOOSE k \in S : \A j \in S : k <= j

\* the absorb branch: words[k] takes the request, the dust pool is
\* refreshed and a burst of 6 particles is emitted
AbsorbAt(W, k, req, total_mass) ==
  LET stored(word) ==
        spawn_effect_ring([W EXCEPT !.words = [@ EXCEPT ![k] = word],
                                    !.dust_pool = Put(@, word.text, word.mass_dust)],
                          6, "+", "Magenta")
  IN  stored(absorb_into_word(W.words[k], req, total_mass))

NewWord(id, req, total_mass) ==
  [id |-> id, text |-> req.text, pos |-> req.pos, vel |-> req.vel,
   radius |-> Radius(total_mass), mass_total |-> total_mass,
   mass_visible |-> req.mass_visible, mass_dust |-> req.mass_dust,
   flags |-> [can_split |-> TRUE],
   trail |-> [k \in 1..TRAIL_LEN |-> req.pos], trail_head |-> 0, trail_len |-> 1]

\* fault model: the id of a new word is its position in words
SpawnNewReuse(W, req, total_mass) ==
  LET id == Len(W.words) + 1
  IN  [W EXCEPT !.next_id = @ + 1,
                !.words = Append(@, NewWord(id, req, total_mass)),
                !.text_index = Put(@, req.text, id),
                !.dust_pool = Put(@, req.text, req.mass_dust),
                !.word_indices = Put(@, id, Len(W.words))]

\* the spawn branch: a new id (World::next_id), a new word, both indices
\* and the dust pool updated
SpawnNew(W, req, total_mass) ==
  LET id == W.next_id
  IN  [W EXCEPT !.next_id = @ + 1,
                !.words = Append(@, NewWord(id, req, total_mass)),
                !.text_index = Put(@, req.text, id),
                !.dust_pool = Put(@, req.text, req.mass_dust),
                !.word_indices = Put(@, id, Len(W.words))]

\* fault model: every request spawns, the text index is not consulted
spawn_always(W, req) ==
  [W EXCEPT !.next_id = @ + 1,
            !.words = Append(@, NewWord(W.next_id, req, RAdd(req.mass_visible, req.mass_dust))),
            !.text_index = Put(@, req.text, W.next_id),
            !.dust_pool = Put(@, req.text, req.mass_dust),
            !.word_indices = Put(@, W.next_id, Len(W.words))]

spawn_or_absorb(W, req) ==
  LET routed(total_mass) ==
        IF req.text \in DOMAIN W.text_index
        THEN LET byId == IndicesWithId(W.words, W.text_index[req.text])
                 byText == IndicesWithText(W.words, req.text)
                 W1 == [W EXCEPT !.text_index = Remove(@, req.text)]
                 absorbed(V, k) == AbsorbAt(V, k, req, total_mass)
             IN  IF byId # {} \/ byText # {}
                 THEN absorbed(IF byId # {} THEN W
                               ELSE [W1 EXCEPT !.text_index =
                                       Put(@, req.text, W.words[First(byText)].id)],
                               IF byId # {} THEN First(byId) ELSE First(byText))
                 ELSE SpawnNew(W1, req, total_mass)
        ELSE SpawnNew(W, req, total_mass)
  IN  routed(RAdd(req.mass_visible, req.mass_dust))

\* ------------------------------------------------------------------------
\* spatial/mod.rs: SpatialHash
\* ------------------------------------------------------------------------

cell_key(cell_size, pos) ==
  <<RFloor(RDiv(pos.x, cell_size)), RFloor(RDiv(pos.y, cell_size))>>

\* cells.clear(); then each index is pushed onto the vector of its cell
RECURSIVE RebuildFrom(_, _, _, _)
RebuildFrom(cell_size, positions, k, cells) ==
  IF k > Len(positions) THEN cells
  ELSE LET pushed(key) ==
             Put(cells, key, Append(IF key \in DOMAIN cells THEN cells[key] ELSE <<>>, k - 1))
       IN  RebuildFrom(cell_size, positions, k + 1, pushed(cell_key(cell_size, positions[k])))

\* fault model: the cells of the last rebuild are kept
rebuild_stale(cells, cell_size, positions) == RebuildFrom(cell_size, positions, 1, cells)

\* SpatialHash::clear
clear(cells) == EmptyMap

rebuild(cells, cell_size, positions) == RebuildFrom(cell_size, positions, 1, clear(cells))

\* f32 values that are not finite, as fractions of denominator 0:
\* f32::INFINITY, f32::NEG_INFINITY and f32::NAN
INFINITY == [n |-> 1, d |-> 0]

NEG_INFINITY == [n |-> -1, d |-> 0]

NAN == [n |-> 0, d |-> 0]

is_finite(x) == x.d # 0

\* fault model: a cell size of zero is accepted
SpatialHashNewLax(cell_size) ==
  IF is_finite(cell_size) /\ RGe(cell_size, Zero)
    THEN [cell_size |-> cell_size, cells |-> EmptyMap]
    ELSE [panic |-> "cell_size must be positive and finite"]

\* SpatialHash::new: the new hash, or the panic of its assert!
SpatialHashNew(cell_size) ==
  IF is_finite(cell_size) /\ RGt(cell_size, Zero)
    THEN [cell_size |-> cell_size, cells |-> EmptyMap]
    ELSE [panic |-> "cell_size must be positive and finite"]

\* "for dx in -range..=range" at row cy + dy, from dx on
RECURSIVE QueryRow(_, _, _, _, _)
QueryRow(cells, cx, y, range, dx) ==
  IF dx > range THEN <<>>
  ELSE (IF <<cx + dx, y>> \in DOMAIN cells THEN cells[<<cx + dx, y>>] ELSE <<>>)
       \o QueryRow(cells, cx, y, range, dx + 1)

\* "for dy in -range..=range", from dy on
RECURSIVE QueryFrom(_, _, _, _, _)
QueryFrom(cells, cx, cy, range, dy) ==
  IF dy > range THEN <<>>
  ELSE QueryRow(cells, cx, cy + dy, range, -range) \o QueryFrom(cells, cx, cy, range, dy + 1)

query_neighbors_range(cell_size, cells, pos, range) ==
  LET around(c, r) == QueryFrom(cells, c[1], c[2], r, -r)
  IN  around(cell_key(cell_size, pos), IF range < 0 THEN 0 ELSE range)

\* ------------------------------------------------------------------------
\* core/mod.rs: gravity
\* ------------------------------------------------------------------------

smoothstep(edge0, edge1, x) ==
  IF RLe(edge1, edge0) THEN (IF RLt(x, edge1) THEN One ELSE Zero)
  ELSE LET raw == RDiv(RSub(x, edge0), RSub(edge1, edge0))
           poly(t) == RMul(RMul(t, t), RSub(I(3), RMul(I(2), t)))
       IN  poly(RMax(Zero, RMin(One, raw)))

gravity_cutoff_weight(r, cutoff) ==
  IF RLe(cutoff, Zero) THEN Zero
  ELSE LET faded(fade_start) ==
             IF RGe(r, cutoff) THEN Zero
             ELSE IF RLe(r, fade_start) THEN One
             ELSE RSub(One, smoothstep(fade_start, cutoff, r))
       IN  faded(RMul(cutoff, GRAVITY_CUTOFF_FADE_START))

\* fault model: the source mass is mass_visible, without the floor
GravityTermPlain(ws, i, j) ==
  LET pulled(other, delta) ==
        LET at(raw_dist_sq, r) ==
              LET weighted(weight) ==
                    LET dist_sq == RAdd(raw_dist_sq, GRAVITY_SOFTENING)
                        dir     == VScale(delta, RInv(r))
                        force   == RDiv(RMul(RMul(GRAVITY_G, other.mass_visible), weight), dist_sq)
                    IN  IF RLe(weight, Zero) THEN VZERO ELSE VScale(dir, force)
              IN  IF RLt(raw_dist_sq, Rat(1, 1000000)) THEN VZERO
                  ELSE weighted(gravity_cutoff_weight(r, GRAVITY_CUTOFF))
        IN  at(length_sq(delta), length(delta))
  IN  IF i = j THEN VZERO
      ELSE pulled(ws[j + 1], VSub(ws[j + 1].pos, ws[i + 1].pos))

\* the acceleration that words[j] (0-based j) adds to words[i]
GravityTerm(ws, i, j) ==
  LET pulled(other, delta) ==
        LET at(raw_dist_sq, r) ==
              LET weighted(weight) ==
                    LET dist_sq == RAdd(raw_dist_sq, GRAVITY_SOFTENING)
                        dir     == VScale(delta, RInv(r))
                        mass_for_gravity == RMax(other.mass_visible, GRAVITY_MIN_MASS)
                        force   == RDiv(RMul(RMul(GRAVITY_G, mass_for_gravity), weight), dist_sq)
                    IN  IF RLe(weight, Zero) THEN VZERO ELSE VScale(dir, force)
              IN  IF RLt(raw_dist_sq, Rat(1, 1000000)) THEN VZERO
                  ELSE weighted(gravity_cutoff_weight(r, GRAVITY_CUTOFF))
        IN  at(length_sq(delta), length(delta))
  IN  IF i = j THEN VZERO
      ELSE pulled(ws[j + 1], VSub(ws[j + 1].pos, ws[i + 1].pos))

RECURSIVE GravitySum(_, _, _, _)
GravitySum(ws, i, neighbors, k) ==
  IF k > Len(neighbors) THEN VZERO
  ELSE VAdd(GravityTerm(ws, i, neighbors[k]), GravitySum(ws, i, neighbors, k + 1))

\* the clamped acceleration self.acc[i]
GravityAcc(ws, cells, i, dt) ==
  LET neighbors == query_neighbors_range(SPATIAL_CELL_SIZE, cells, ws[i + 1].pos,
                                         SPATIAL_QUERY_RANGE_GRAVITY)
      clamped(acc) ==
        LET of(acc_len) ==
              LET by(dv) == IF RGt(acc_len, Zero) /\ RGt(dv, GRAVITY_DV_MAX)
                            THEN VScale(acc, RDiv(GRAVITY_DV_MAX, dv))
                            ELSE acc
              IN  by(RMul(acc_len, dt))
        IN  of(length(acc))
  IN  clamped(GravitySum(ws, i, neighbors, 1))

apply_sun_pulse(ws, s, dt) ==
  LET pulsed(word, delta) ==
        LET at(dist_sq) ==
              LET dir == IF RGt(dist_sq, Zero) THEN normalize(delta) ELSE Vec2(One, Zero)
              IN  IF IsNaR(dist_sq) THEN [word EXCEPT !.vel = NaV]
                  ELSE IF RLe(dist_sq, RMul(s.radius, s.radius))
                  THEN [word EXCEPT !.vel = VAdd(@, VScale(dir, RMul(s.strength, dt)))]
                  ELSE word
        IN  at(length_sq(delta))
  IN  [k \in 1..Len(ws) |-> pulsed(ws[k], VSub(ws[k].pos, s.center))]

apply_gravity_nearby(W, cells, dt) ==
  LET ws == W.words
      pulsed(ws1) ==
        [W EXCEPT !.words = IF W.sun # <<>> THEN apply_sun_pulse(ws1, W.sun[1], dt) ELSE ws1]
  IN  pulsed([k \in 1..Len(ws) |->
                [ws[k] EXCEPT !.vel = VAdd(@, VScale(GravityAcc(ws, cells, k - 1, dt), dt))]])

\* ------------------------------------------------------------------------
\* core/mod.rs: integration
\* ------------------------------------------------------------------------

\* fault model: trail_len grows with every position recorded
record_trail_uncapped(word) ==
  LET head == (word.trail_head + 1) % TRAIL_LEN
  IN  [word EXCEPT !.trail_head = head,
                   !.trail = [@ EXCEPT ![head + 1] = word.pos],
                   !.trail_len = @ + 1]

record_trail(word) ==
  LET head == (word.trail_head + 1) % TRAIL_LEN
  IN  [word EXCEPT !.trail_head = head,
                   !.trail = [@ EXCEPT ![head + 1] = word.pos],
                   !.trail_len = IF @ < TRAIL_LEN THEN @ + 1 ELSE @]

\* fault model: only a position above the upper bound is clamped
ReflectAbove(p, v, half) ==
  IF RGt(p, half) THEN <<half, RMul(RNeg(v), BOUNCE_DAMP)>> ELSE <<p, v>>

\* one axis of the boundary reflection: <<position, velocity>> after the clamp
Reflect(p, v, half) ==
  LET clamped(low) ==
        IF RLt(p, low) THEN <<low, RMul(RNeg(v), BOUNCE_DAMP)>>
        ELSE IF RGt(p, half) THEN <<half, RMul(RNeg(v), BOUNCE_DAMP)>>
        ELSE <<p, v>>
  IN  clamped(RNeg(half))

IntegrateWord(word, dt) ==
  LET bounced(rx, ry) ==
        record_trail([word EXCEPT !.pos = Vec2(rx[1], ry[1]), !.vel = Vec2(rx[2], ry[2])])
      moved(pos) == bounced(Reflect(pos.x, word.vel.x, WORLD_HALF_WIDTH),
                            Reflect(pos.y, word.vel.y, WORLD_HALF_HEIGHT))
  IN  moved(VAdd(word.pos, VScale(word.vel, dt)))

integrate(W, dt) ==
  [W EXCEPT !.words = [k \in 1..Len(W.words) |-> IntegrateWord(W.words[k], dt)]]

\* ------------------------------------------------------------------------
\* core/mod.rs: collisions.  A pair of words and the event queue are
\* threaded through the two loops as the record [words, events].
\* ------------------------------------------------------------------------

Merge(a, b) == [type |-> "Merge", a |-> a, b |-> b]

Split(id) == [type |-> "Split", id |-> id]

RESTITUTION == Rat(85, 100)

\* fault model: the split conditions are tested before the merge condition
ClassifySplitFirst(a, b, rel_speed, mass_ratio) ==
  IF RGe(rel_speed, SPLIT_REL_SPEED_MIN) \/ RGe(mass_ratio, TIDAL_MASS_RATIO)
    THEN <<Split(a.id), Split(b.id)>>
  ELSE IF RLe(rel_speed, MERGE_REL_SPEED_MAX) THEN <<Merge(a.id, b.id)>>
  ELSE <<>>

\* the events that an overlapping pair queues (the if / else if that ends
\* the body of the inner loop)
Classify(a, b, rel_speed, mass_ratio) ==
  IF RLe(rel_speed, MERGE_REL_SPEED_MAX) THEN <<Merge(a.id, b.id)>>
  ELSE IF RGe(rel_speed, SPLIT_REL_SPEED_MIN) \/ RGe(mass_ratio, TIDAL_MASS_RATIO)
    THEN <<Split(a.id), Split(b.id)>>
  ELSE <<>>

\* the body of the inner loop for the pair i < j (0-based)
CollidePair(S, i, j) ==
  LET a == S.words[i + 1]
      b == S.words[j + 1]
      \* the overlapping pair is pushed apart, takes the impulse and queues its event
      resolved(normal, dist_safe, min_dist, rel_along, rel_speed,
               inv_mass_a, inv_mass_b, inv_mass_sum, mass_ratio) ==
        LET overlap == RSub(min_dist, dist_safe)
            impulse_mag == RDiv(RMul(RNeg(RAdd(One, RESTITUTION)), rel_along), inv_mass_sum)
            hit == RLt(rel_along, Zero) /\ RGt(inv_mass_sum, Zero)
            moved(push, impulse) ==
              [S.words EXCEPT
                 ![i + 1] = [a EXCEPT !.pos = VSub(@, push),
                                      !.vel = IF hit THEN VSub(@, VScale(impulse, inv_mass_a))
                                              ELSE @],
                 ![j + 1] = [b EXCEPT !.pos = VAdd(@, push),
                                      !.vel = IF hit THEN VAdd(@, VScale(impulse, inv_mass_b))
                                              ELSE @]]
            queued == Classify(a, b, rel_speed, mass_ratio)
        IN  [words  |-> moved(VScale(normal, RMul(overlap, Rat(1, 2))),
                              VScale(normal, impulse_mag)),
             events |-> S.events \o queued]
      met(delta, dist, min_dist, rel_vel, inv_mass_a, inv_mass_b) ==
        LET far == RGt(dist, Rat(1, 1000000))
            seen(normal, rel_along, rel_speed, inv_mass_sum, mass_ratio) ==
              LET unknown == \E r \in {dist, min_dist, rel_along, rel_speed, inv_mass_sum,
                                       mass_ratio} : IsNaR(r)
              IN  IF unknown THEN [S EXCEPT !.words[i + 1].pos = NaV]
                  ELSE IF RLt(a.mass_visible, MIN_VISIBLE_MASS)
                          /\ RLt(b.mass_visible, MIN_VISIBLE_MASS)
                  THEN S
                  ELSE IF RLt(dist, min_dist)
                    THEN resolved(normal, IF far THEN dist ELSE Zero, min_dist, rel_along,
                                  rel_speed, inv_mass_a, inv_mass_b, inv_mass_sum, mass_ratio)
                    ELSE S
            along(normal) ==
              seen(normal, dot(rel_vel, normal), length(rel_vel),
                   RAdd(inv_mass_a, inv_mass_b),
                   IF RGt(a.mass_total, b.mass_total)
                   THEN RDiv(a.mass_total, RMax(b.mass_total, Rat(1, 10000)))
                   ELSE RDiv(b.mass_total, RMax(a.mass_total, Rat(1, 10000))))
        IN  along(IF far THEN VScale(delta, RInv(dist)) ELSE Vec2(One, Zero))
      apart(delta) ==
        met(delta, length(delta), RAdd(a.radius, b.radius), VSub(b.vel, a.vel),
            IF RGt(a.mass_visible, Zero) THEN RInv(a.mass_visible) ELSE Zero,
            IF RGt(b.mass_visible, Zero) THEN RInv(b.mass_visible) ELSE Zero)
  IN  apart(VSub(b.pos, a.pos))

RECURSIVE CollideNeighbors(_, _, _, _)
CollideNeighbors(S, i, neighbors, k) ==
  IF k > Len(neighbors) THEN S
  ELSE IF neighbors[k] <= i THEN CollideNeighbors(S, i, neighbors, k + 1)
  ELSE CollideNeighbors(CollidePair(S, i, neighbors[k]), i, neighbors, k + 1)

RECURSIVE CollideFrom(_, _, _)
CollideFrom(S, cells, i) ==
  IF i >= Len(S.words) THEN S
  ELSE LET neighbors == query_neighbors_range(SPATIAL_CELL_SIZE, cells, S.words[i + 1].pos,
                                              SPATIAL_QUERY_RANGE_COLLISION)
       IN  CollideFrom(CollideNeighbors(S, i, neighbors, 1), cells, i + 1)

\* fault model: the second word of a Merge is removed on the spot
resolve_collisions_remove(W, cells) ==
  LET merged(S) ==
        {S.events[k].b : k \in {e \in 1..Len(S.events) : S.events[e].type = "Merge"}}
      kept(S) ==
        LET keep(w) == w.id \notin merged(S) IN SelectSeq(S.words, keep)
      stored(S) == [W EXCEPT !.words = kept(S), !.events = S.events]
  IN  stored(CollideFrom([words |-> W.words, events |-> W.events], cells, 0))

resolve_collisions(W, cells) ==
  LET stored(S) == [W EXCEPT !.words = S.words, !.events = S.events]
  IN  stored(CollideFrom([words |-> W.words, events |-> W.events], cells, 0))

\* ------------------------------------------------------------------------
\* Values drawn from the random stream.  Directions (cos angle, sin angle)
\* are drawn for the angles 0 and pi, so that every vector of the model
\* lies on the x axis and f32::sqrt is exact.
\* ------------------------------------------------------------------------

DirSet == {Vec2(One, Zero), Vec2(RNeg(One), Zero)}

\* vel_jitter: gen_range(-2.0..2.0) on each axis
JitterSet == {VZERO}

\* ------------------------------------------------------------------------
\* core/mod.rs: apply_events.  The loop state is
\* [W, consumed, to_add]; the draws of a Split are [parts, dirs, jitters].
\* ------------------------------------------------------------------------

find_index(W, id) == IF id \in DOMAIN W.word_indices THEN <<W.word_indices[id]>> ELSE <<>>

\* fault model: a Merge does not look at the consumed ids
MergeAppliesConsumed(W, consumed, ev) ==
  find_index(W, ev.a) # <<>> /\ find_index(W, ev.b) # <<>>

MergeApplies(W, consumed, ev) ==
  /\ ev.a \notin consumed /\ ev.b \notin consumed
  /\ find_index(W, ev.a) # <<>> /\ find_index(W, ev.b) # <<>>

SplitApplies(W, consumed, ev) ==
  /\ ev.id \notin consumed
  /\ find_index(W, ev.id) # <<>>
  /\ LET base == W.words[find_index(W, ev.id)[1] + 1]
     IN  ~(~base.flags.can_split \/ RLe(base.mass_total, One)
           \/ Len(components(base.text)) < 2)

\* the two words a Merge reads: words[first], words[second], first < second
MergeFirst(W, ev) ==
  LET ia == find_index(W, ev.a)[1]
      ib == find_index(W, ev.b)[1]
  IN  W.words[(IF ia < ib THEN ia ELSE ib) + 1]

MergeSecond(W, ev) ==
  LET ia == find_index(W, ev.a)[1]
      ib == find_index(W, ev.b)[1]
  IN  W.words[(IF ia < ib THEN ib ELSE ia) + 1]

\* fault model: position and velocity of a merge are the plain midpoints
MergeRequestMid(a_clone, b_clone) ==
  SpawnRequest(merge_text(a_clone.text, b_clone.text),
               VScale(VAdd(a_clone.pos, b_clone.pos), Rat(1, 2)),
               VScale(VAdd(a_clone.vel, b_clone.vel), Rat(1, 2)),
               RAdd(a_clone.mass_visible, b_clone.mass_visible),
               RAdd(a_clone.mass_dust, b_clone.mass_dust))

MergeRequest(a_clone, b_clone) ==
  LET merged(total_mass) ==
        LET weighted(u, v) ==
              VScale(VAdd(VScale(u, a_clone.mass_total), VScale(v, b_clone.mass_total)),
                     RInv(total_mass))
            heavy == RGt(total_mass, Zero)
        IN  SpawnRequest(merge_text(a_clone.text, b_clone.text),
                         IF heavy THEN weighted(a_clone.pos, b_clone.pos) ELSE a_clone.pos,
                         IF heavy THEN weighted(a_clone.vel, b_clone.vel) ELSE a_clone.vel,
                         RAdd(a_clone.mass_visible, b_clone.mass_visible),
                         RAdd(a_clone.mass_dust, b_clone.mass_dust))
  IN  merged(RAdd(a_clone.mass_total, b_clone.mass_total))

\* fault model: the masses of a Split are divided by max_parts instead of parts
SplitRequestsByMax(base, draw) ==
  LET groups == split_groups(components(base.text), draw.parts)
      n      == Len(components(base.text))
      most   == IF n < SPLIT_PARTS_MAX THEN n ELSE SPLIT_PARTS_MAX
  IN  [k \in 1..Len(groups) |->
         SpawnRequest(groups[k],
                      VAdd(base.pos, VScale(draw.dirs[k], RMul(base.radius, Rat(9, 10)))),
                      VAdd(VAdd(base.vel, draw.jitters[k]),
                           VScale(draw.dirs[k], SPLIT_RADIAL_SPEED)),
                      RDiv(base.mass_visible, I(most)),
                      RDiv(base.mass_dust, I(most)))]

\* max_parts of a Split of base
MaxParts(base) ==
  LET n == Len(components(base.text))
  IN  IF n < SPLIT_PARTS_MAX THEN n ELSE SPLIT_PARTS_MAX

\* the spawn requests of a Split of base, one per group
SplitRequests(base, draw) ==
  LET parts == draw.parts
      part(text, dir, vel_jitter, part_visible, part_dust) ==
        SpawnRequest(text,
                     VAdd(base.pos, VScale(dir, RMul(base.radius, Rat(9, 10)))),
                     VAdd(VAdd(base.vel, vel_jitter), VScale(dir, SPLIT_RADIAL_SPEED)),
                     part_visible, part_dust)
      requests(groups, part_visible, part_dust) ==
        [k \in 1..Len(groups) |->
           part(groups[k], draw.dirs[k], draw.jitters[k], part_visible, part_dust)]
  IN  requests(split_groups(components(base.text), parts),
               RDiv(base.mass_visible, I(parts)), RDiv(base.mass_dust, I(parts)))

\* fault model: a Split marks its word consumed before the eligibility test
ApplyEventEager(A, ev, draw) ==
  IF ev.type = "Merge"
  THEN IF MergeApplies(A.W, A.consumed, ev)
       THEN [W        |-> spawn_effect_ring(A.W, 8, "+", "Yellow"),
             consumed |-> A.consumed \cup {ev.a, ev.b},
             to_add   |-> Append(A.to_add, MergeRequest(MergeFirst(A.W, ev), MergeSecond(A.W, ev)))]
       ELSE A
  ELSE IF ev.id \in A.consumed \/ find_index(A.W, ev.id) = <<>> THEN A
       ELSE IF SplitApplies(A.W, A.consumed, ev)
         THEN LET base == A.W.words[find_index(A.W, ev.id)[1] + 1]
              IN  [W        |-> spawn_effect_ring(A.W, 12, "*", "Red"),
                   consumed |-> A.consumed \cup {base.id},
                   to_add   |-> A.to_add \o SplitRequests(base, draw)]
         ELSE [A EXCEPT !.consumed = @ \cup {ev.id}]

ApplyEvent(A, ev, draw) ==
  IF ev.type = "Merge"
  THEN IF MergeApplies(A.W, A.consumed, ev)
       THEN LET a_clone == MergeFirst(A.W, ev)
                b_clone == MergeSecond(A.W, ev)
            IN  [W        |-> spawn_effect_ring(A.W, 8, "+", "Yellow"),
                 consumed |-> A.consumed \cup {a_clone.id, b_clone.id},
                 to_add   |-> Append(A.to_add, MergeRequest(a_clone, b_clone))]
       ELSE A
  ELSE IF SplitApplies(A.W, A.consumed, ev)
       THEN LET base == A.W.words[find_index(A.W, ev.id)[1] + 1]
            IN  [W        |-> spawn_effect_ring(A.W, 12, "*", "Red"),
                 consumed |-> A.consumed \cup {base.id},
                 to_add   |-> A.to_add \o SplitRequests(base, draw)]
       ELSE A

RECURSIVE ApplyEventsFrom(_, _, _, _)
ApplyEventsFrom(A, evs, tape, k) ==
  IF k > Len(evs) THEN A
  ELSE ApplyEventsFrom(ApplyEvent(A, evs[k], tape[k]), evs, tape, k + 1)

\* fault model: the loop reads the queue without taking it
ApplyEventsLoopKeep(W, tape) ==
  ApplyEventsFrom([W |-> W, consumed |-> {}, to_add |-> <<>>], W.events, tape, 1)

\* the state of apply_events after its event loop
ApplyEventsLoop(W, tape) ==
  ApplyEventsFrom([W |-> [W EXCEPT !.events = <<>>], consumed |-> {}, to_add |-> <<>>],
                  W.events, tape, 1)

\* the requests the k-th event of the loop pushes on to_add
PushedBy(W, tape, k) ==
  LET start == [W |-> [W EXCEPT !.events = <<>>], consumed |-> {}, to_add |-> <<>>]
      grown(before) ==
        LET new(after) == SubSeq(after.to_add, Len(before.to_add) + 1, Len(after.to_add))
        IN  new(ApplyEvent(before, W.events[k], tape[k]))
  IN  grown(ApplyEventsFrom(start, SubSeq(W.events, 1, k - 1), tape, 1))

\* words.retain(|w| !consumed.contains(&w.id))
IsKept(consumed, w) == w.id \notin consumed

Retain(ws, consumed) ==
  LET keep(w) == IsKept(consumed, w) IN SelectSeq(ws, keep)

RECURSIVE SpawnAll(_, _, _)
SpawnAll(W, reqs, k) ==
  IF k > Len(reqs) THEN W ELSE SpawnAll(spawn_or_absorb(W, reqs[k]), reqs, k + 1)

apply_events(W, tape) ==
  LET finished(A) ==
        SpawnAll(IF A.consumed # {}
                 THEN rebuild_index_map(rebuild_text_index(
                        [A.W EXCEPT !.words = Retain(@, A.consumed)]))
                 ELSE A.W,
                 A.to_add, 1)
  IN  IF W.events = <<>> THEN W ELSE finished(ApplyEventsLoop(W, tape))

\* ---- the draws apply_events takes from the random stream ----------------

NoDraw == [parts |-> 0, dirs |-> <<>>, jitters |-> <<>>]

\* gen_range(SPLIT_PARTS_MIN..=max_parts), then one angle and one jitter per part
DrawsFor(max_parts) ==
  IF max_parts = 0 THEN {NoDraw}
  ELSE UNION {[parts : {p}, dirs : [1..p -> DirSet], jitters : [1..p -> JitterSet]] :
                p \in SPLIT_PARTS_MIN..max_parts}

\* the tapes (one draw per event) under which the events from k on run,
\* given the ids consumed so far: an event that does not split draws nothing
RECURSIVE Tapes(_, _, _, _)
Tapes(W, evs, k, consumed) ==
  IF k > Len(evs) THEN {<<>>}
  ELSE LET ev == evs[k]
           merges == ev.type = "Merge" /\ MergeApplies(W, consumed, ev)
           splits == ev.type = "Split" /\ SplitApplies(W, consumed, ev)
           after  == IF merges THEN consumed \cup {ev.a, ev.b}
                     ELSE IF splits THEN consumed \cup {ev.id}
                     ELSE consumed
           here   == IF splits
                     THEN DrawsFor(MaxParts(W.words[find_index(W, ev.id)[1] + 1]))
                     ELSE {NoDraw}
       IN  {<<d>> \o t : d \in here, t \in Tapes(W, evs, k + 1, after)}

\* ------------------------------------------------------------------------
\* core/mod.rs: consolidate_duplicates.  The loop state is
\* [merged, best_mass]; index.get(text) is the position in merged of the
\* word holding that text.
\* ------------------------------------------------------------------------

HasDuplicate(ws) ==
  \E j, k \in 1..Len(ws) : j < k /\ ws[j].text = ws[k].text

\* fault model: a duplicate is folded in at the midpoint, whatever the masses
FoldIntoMid(target, best, word) ==
  [target EXCEPT
     !.pos = VScale(VAdd(target.pos, word.pos), Rat(1, 2)),
     !.vel = VScale(VAdd(target.vel, word.vel), Rat(1, 2)),
     !.mass_visible = RAdd(@, word.mass_visible),
     !.mass_dust = RAdd(@, word.mass_dust),
     !.mass_total = RAdd(target.mass_total, word.mass_total),
     !.radius = Radius(RAdd(target.mass_total, word.mass_total))]

\* the body of "if let Some(&idx) = index.get(&word.text)"
FoldInto(target, best, word) ==
  LET target_mass == target.mass_total
      folded(total_mass) ==
        LET blend(u, v) == VScale(VAdd(VScale(u, target_mass), VScale(v, word.mass_total)),
                                  RInv(total_mass))
            heavy == RGt(total_mass, Zero)
        IN  [target EXCEPT
               !.pos = IF heavy THEN blend(target.pos, word.pos) ELSE @,
               !.vel = IF heavy THEN blend(target.vel, word.vel) ELSE @,
               !.mass_visible = RAdd(@, word.mass_visible),
               !.mass_dust = RAdd(@, word.mass_dust),
               !.mass_total = total_mass,
               !.radius = Radius(total_mass),
               !.trail = IF RGt(word.mass_total, best) THEN word.trail ELSE @,
               !.trail_head = IF RGt(word.mass_total, best) THEN word.trail_head ELSE @,
               !.trail_len = IF RGt(word.mass_total, best) THEN word.trail_len ELSE @]
  IN  folded(RAdd(target_mass, word.mass_total))

RECURSIVE ConsolidateFrom(_, _, _)
ConsolidateFrom(ws, k, M) ==
  IF k > Len(ws) THEN M
  ELSE LET word == ws[k]
           at   == IndicesWithText(M.merged, word.text)
       IN  IF at # {}
           THEN LET idx == First(at)
                IN  ConsolidateFrom(ws, k + 1,
                      [merged    |-> [M.merged EXCEPT ![idx] =
                                        FoldInto(M.merged[idx], M.best_mass[idx], word)],
                       best_mass |-> [M.best_mass EXCEPT ![idx] =
                                        IF RGt(word.mass_total, @) THEN word.mass_total ELSE @]])
           ELSE ConsolidateFrom(ws, k + 1,
                      [merged    |-> Append(M.merged, word),
                       best_mass |-> Append(M.best_mass, word.mass_total)])

consolidate_duplicates(W) ==
  LET stored(M) == rebuild_index_map(rebuild_text_index([W EXCEPT !.words = M.merged]))
  IN  IF Len(W.words) < 2 THEN W
      ELSE IF ~HasDuplicate(W.words) THEN W
      ELSE stored(ConsolidateFrom(W.words, 1, [merged |-> <<>>, best_mass |-> <<>>]))

\* ------------------------------------------------------------------------
\* core/mod.rs: weathering and autogenesis
\* ------------------------------------------------------------------------

\* fault model: the weathered amount leaves mass_visible and is not
\* credited to mass_dust
WeatherWordLossy(word, dt) ==
  LET amount == RMin(RMul(RMul(word.mass_visible, WEATHERING_RATE), dt), word.mass_visible)
      mv == RSub(word.mass_visible, amount)
  IN  [word EXCEPT !.mass_visible = mv, !.mass_total = RAdd(mv, word.mass_dust)]

WeatherWord(word, dt) ==
  LET moved(amount) ==
        LET stored(mv, md) ==
              [word EXCEPT !.mass_visible = mv, !.mass_dust = md, !.mass_total = RAdd(mv, md)]
        IN  stored(RSub(word.mass_visible, amount), RAdd(word.mass_dust, amount))
  IN  moved(RMin(RMul(RMul(word.mass_visible, WEATHERING_RATE), dt), word.mass_visible))

\* the sum of mass_dust over the words k.. that hold text t
RECURSIVE DustOf(_, _, _)
DustOf(ws, t, k) ==
  IF k > Len(ws) THEN Zero
  ELSE RAdd(IF ws[k].text = t THEN ws[k].mass_dust ELSE Zero, DustOf(ws, t, k + 1))

\* fault model: dust_pool is not cleared, the keys of removed words stay
weathering_step_keep(W, dt) ==
  LET stored(ws) ==
        [W EXCEPT !.words = ws,
                  !.dust_pool = [t \in (DOMAIN W.dust_pool) \cup {ws[k].text : k \in 1..Len(ws)} |->
                                   IF t \in {ws[k].text : k \in 1..Len(ws)}
                                   THEN DustOf(ws, t, 1) ELSE W.dust_pool[t]]]
  IN  stored([k \in 1..Len(W.words) |-> WeatherWord(W.words[k], dt)])

weathering_step(W, dt) ==
  LET stored(ws) ==
        [W EXCEPT !.words = ws,
                  !.dust_pool = [t \in {ws[k].text : k \in 1..Len(ws)} |-> DustOf(ws, t, 1)]]
  IN  stored([k \in 1..Len(W.words) |-> WeatherWord(W.words[k], dt)])

VisibleCount(ws) ==
  Cardinality({k \in 1..Len(ws) : RGe(ws[k].mass_visible, MIN_VISIBLE_MASS)})

\* fault model: the entry of dust_pool keeps the dust that has been moved
AutogenesisKeyStale(W, key, dt, draw) ==
  LET dust == IF key \in DOMAIN W.dust_pool THEN W.dust_pool[key] ELSE Zero
      moved(amount) ==
        LET left(remaining) ==
              IF key \in DOMAIN W.text_index
              THEN LET at == IndicesWithId(W.words, W.text_index[key])
                       grown(k, mv) ==
                         [W EXCEPT !.words[k].mass_visible = mv,
                                   !.words[k].mass_dust = remaining,
                                   !.words[k].mass_total = RAdd(mv, remaining)]
                   IN  IF at = {} THEN W
                       ELSE grown(First(at), RAdd(W.words[First(at)].mass_visible, amount))
              ELSE spawn_or_absorb(W, SpawnRequest(key, draw.pos, draw.vel, amount, remaining))
        IN  left(RSub(dust, amount))
  IN  IF RLe(dust, Zero) THEN W
      ELSE moved(RMul(RMul(dust, AUTOGENESIS_RATE), dt))

\* one iteration of "for key in keys"; draw is the [pos, vel] drawn in the spawn branch
AutogenesisKey(W, key, dt, draw) ==
  LET dust == IF key \in DOMAIN W.dust_pool THEN W.dust_pool[key] ELSE Zero
      moved(amount) ==
        LET left(remaining) ==
              IF key \in DOMAIN W.text_index
              THEN LET at == IndicesWithId(W.words, W.text_index[key])
                       grown(k, mv) ==
                         [W EXCEPT !.words[k].mass_visible = mv,
                                   !.words[k].mass_dust = remaining,
                                   !.words[k].mass_total = RAdd(mv, remaining),
                                   !.dust_pool = Put(@, key, remaining)]
                   IN  IF at = {} THEN W
                       ELSE grown(First(at), RAdd(W.words[First(at)].mass_visible, amount))
              ELSE spawn_or_absorb(W, SpawnRequest(key, draw.pos, draw.vel, amount, remaining))
        IN  left(RSub(dust, amount))
  IN  IF RLe(dust, Zero) THEN W
      ELSE moved(RMul(RMul(dust, AUTOGENESIS_RATE), dt))

RECURSIVE AutogenesisFrom(_, _, _, _, _)
AutogenesisFrom(W, keys, k, dt, tape) ==
  IF k > Len(keys) THEN W
  ELSE AutogenesisFrom(AutogenesisKey(W, keys[k], dt, tape[k]), keys, k + 1, dt, tape)

\* fault model: no test of the visible count
autogenesis_step_ungated(W, dt, keys, tape) ==
  AutogenesisFrom(W, keys, 1, dt, tape)

autogenesis_step(W, dt, keys, tape) ==
  IF VisibleCount(W.words) >= K_VISIBLE_MIN THEN W
  ELSE AutogenesisFrom(W, keys, 1, dt, tape)

\* the orders in which a HashMap may yield the keys of S
RECURSIVE Orders(_)
Orders(S) ==
  IF S = {} THEN {<<>>} ELSE UNION {{<<x>> \o o : o \in Orders(S \ {x})} : x \in S}

\* autogenesis placement: pos within the world bounds, vel in gen_range(-4.0..4.0)
AutoDrawSet == {[pos |-> VZERO, vel |-> VZERO]}

\* ------------------------------------------------------------------------
\* core/mod.rs: update_effects
\* ------------------------------------------------------------------------

IsLive(e) == RGt(e.ttl, Zero)

\* fault model: a particle whose ttl has reached zero is kept
update_effects_late(W, dt) ==
  LET aged == [k \in 1..Len(W.effects) |-> [W.effects[k] EXCEPT !.ttl = RSub(@, dt)]]
      kept == SelectSeq(aged, LAMBDA e : RGe(e.ttl, Zero))
  IN  [W EXCEPT !.effects = kept,
                !.effect_cursor = IF @ >= Len(kept) THEN 0 ELSE @]

update_effects(W, dt) ==
  LET aged == [k \in 1..Len(W.effects) |-> [W.effects[k] EXCEPT !.ttl = RSub(@, dt)]]
      kept == SelectSeq(aged, IsLive)
  IN  [W EXCEPT !.effects = kept,
                !.effect_cursor = IF @ >= Len(kept) THEN 0 ELSE @]

\* ------------------------------------------------------------------------
\* core/mod.rs: snapshot
\* ------------------------------------------------------------------------

\* the entry pushed for a word: text is the fixed array of TEXT_MAX_DRAW
\* characters, blank beyond the first text_len
WordSnapshot(word) ==
  [id |-> word.id,
   text |-> [k \in 1..TEXT_MAX_DRAW |->
               IF k > Len(word.text) THEN SPACE
               ELSE IF word.text[k] = WORD_JOIN_SEP THEN WORD_JOIN_DISPLAY
               ELSE word.text[k]],
   text_len |-> IF Len(word.text) < TEXT_MAX_DRAW THEN Len(word.text) ELSE TEXT_MAX_DRAW,
   pos |-> word.pos, radius |-> word.radius, mass_visible |-> word.mass_visible,
   mass_total |-> word.mass_total, mass_dust |-> word.mass_dust, vel |-> word.vel,
   trail |-> word.trail, trail_len |-> word.trail_len, trail_head |-> word.trail_head]

\* "for word in &self.words", from the k-th word on, pushing on out
RECURSIVE SnapshotFrom(_, _, _)
SnapshotFrom(ws, k, out) ==
  IF k > Len(ws) THEN out
  ELSE SnapshotFrom(ws, k + 1,
                    IF RGe(ws[k].mass_visible, MIN_VISIBLE_MASS)
                      THEN Append(out, WordSnapshot(ws[k]))
                      ELSE out)

\* fault model: out is not cleared
snapshot_keep(W, out) == SnapshotFrom(W.words, 1, out)

\* snapshot(&self, out): the list out after the call
snapshot(W, out) == SnapshotFrom(W.words, 1, <<>>)

\* ------------------------------------------------------------------------
\* Inputs of the public operations and draws of World::new / add_word
\* ------------------------------------------------------------------------

\* the head of word_list in spawn_initial_words: (text, mass_total)
word_list == << [text |-> <<"a">>, mass_total |-> I(18)],
                [text |-> <<"b">>, mass_total |-> I(14)] >>

\* initial position within the world bounds, initial velocity in gen_range(-6.0..6.0)
InitPosSet == {Vec2(Zero, Zero), Vec2(I(3), Zero)}

InitVelSet == {VZERO}

InitDrawSet == [word : 1..Len(word_list), pos : InitPosSet, vel : InitVelSet]

\* add_word(text, mass_total, pos): what the input line of the UI passes
\* (a trimmed, non-empty text; a mass between 1 and 100; the camera position)
AddTextSet == {<<"a">>, <<"c">>}

AddMassSet == {I(2)}

AddPosSet == {Vec2(I(-3), Zero)}

\* speed: gen_range(4.0..10.0); angle: gen_range(0.0..TAU), here 0
SpeedSet == {I(8)}

AddDirSet == {Vec2(One, Zero)}

\* set_sun(center)
SunCenterSet == {Vec2(Zero, Zero)}

\* tick(dt): config::DT, which the main loop passes, and a step of half a
\* second, under which the fractions stay small enough for a merged word
\* to be followed into its split
DtSet == {DT, Rat(1, 2)}

\* ------------------------------------------------------------------------
\* World::new
\* ------------------------------------------------------------------------

EmptyWorld ==
  [words |-> <<>>, events |-> <<>>, sun |-> <<>>, effects |-> <<>>, effect_cursor |-> 0,
   dust_pool |-> EmptyMap, next_id |-> 1, text_index |-> EmptyMap, word_indices |-> EmptyMap]

RECURSIVE SpawnInitialFrom(_, _, _)
SpawnInitialFrom(W, draws, k) ==
  IF k > INIT_WORDS THEN W
  ELSE LET entry == word_list[draws[k].word]
       IN  SpawnInitialFrom(
             spawn_or_absorb(W, SpawnRequest(entry.text, draws[k].pos, draws[k].vel,
                                             entry.mass_total, Zero)),
             draws, k + 1)

spawn_initial_words(W, draws) == SpawnInitialFrom(W, draws, 1)

NewWorld(draws) ==
  rebuild_index_map(rebuild_text_index(spawn_initial_words(EmptyWorld, draws)))

\* last_op: the step taken last, the words before it, the arguments of a
\* public operation, and what apply_events read and produced (made[k] is
\* what the k-th event pushed on to_add), the list a snapshot filled, and
\* the sun before the step
NoOp(name, pre) ==
  [op |-> name, pre |-> pre, args |-> <<>>, evs |-> <<>>, consumed |-> {}, to_add |-> <<>>,
   made |-> <<>>, out |-> <<>>, sun |-> sun]

\* World::new with every draw of spawn_initial_words taken from Draws
InitFrom(Draws) ==
  \E draws \in [1..INIT_WORDS -> Draws] : \E W \in {NewWorld(draws)} :
    /\ words = W.words
    /\ events = W.events
    /\ sun = W.sun
    /\ effects = W.effects
    /\ effect_cursor = W.effect_cursor
    /\ dust_pool = W.dust_pool
    /\ next_id = W.next_id
    /\ text_index = W.text_index
    /\ word_indices = W.word_indices
    /\ spatial = EmptyMap
    /\ pc = "idle"
    /\ tick_dt = Zero
    /\ ticks = 0
    /\ adds = 0
    /\ suns = 0
    /\ last_op = NoOp("new", <<>>)

Init == InitFrom(InitDrawSet)

\* every number of the world is a rational
Exact(W) ==
  /\ \A k \in 1..Len(W.words) :
        LET w == W.words[k]
        IN  \A r \in {w.pos.x, w.pos.y, w.vel.x, w.vel.y, w.mass_visible, w.mass_dust,
                      w.mass_total, w.radius} : ~IsNaR(r)
  /\ \A t \in DOMAIN W.dust_pool : ~IsNaR(W.dust_pool[t])

\* the World fields after a step
Commit(W) ==
  /\ Exact(W)
  /\ words' = W.words
  /\ events' = W.events
  /\ sun' = W.sun
  /\ effects' = W.effects
  /\ effect_cursor' = W.effect_cursor
  /\ dust_pool' = W.dust_pool
  /\ next_id' = W.next_id
  /\ text_index' = W.text_index
  /\ word_indices' = W.word_indices

\* ------------------------------------------------------------------------
\* Public operations
\* ------------------------------------------------------------------------

\* fault model: at the ceiling the dust share of the mass is dropped
AddRequestLeaky(W, text, mass_total, pos, speed, dir) ==
  SpawnRequest(text, pos, VScale(dir, speed),
               IF VisibleCount(W.words) >= K_VISIBLE_MAX
               THEN RMul(mass_total, Rat(25, 100)) ELSE mass_total,
               Zero)

AddRequest(W, text, mass_total, pos, speed, dir) ==
  LET atCeiling == VisibleCount(W.words) >= K_VISIBLE_MAX
      request(mass_visible) ==
        SpawnRequest(text, pos, VScale(dir, speed), mass_visible,
                     IF atCeiling THEN RSub(mass_total, mass_visible) ELSE Zero)
  IN  request(IF atCeiling THEN RMul(mass_total, Rat(25, 100)) ELSE mass_total)

add_word(W, text, mass_total, pos, speed, dir) ==
  spawn_or_absorb(W, AddRequest(W, text, mass_total, pos, speed, dir))

AddWord ==
  /\ pc = "idle"
  /\ adds < MaxAdds
  /\ \E text \in AddTextSet, mass_total \in AddMassSet, pos \in AddPosSet,
        speed \in SpeedSet, dir \in AddDirSet :
       /\ \E W \in {add_word(World, text, mass_total, pos, speed, dir)} : Commit(W)
       /\ last_op' = [NoOp("add_word", words) EXCEPT !.args = <<text, mass_total, pos>>]
  /\ adds' = adds + 1
  /\ UNCHANGED <<spatial, pc, tick_dt, ticks, suns>>

\* fault model: a sun that exists is kept
set_sun_first(W, center) ==
  spawn_effect_ring(IF W.sun # <<>> THEN W
                    ELSE [W EXCEPT !.sun = <<[center |-> center, radius |-> SUN_PULSE_RADIUS,
                                             strength |-> SUN_PULSE_STRENGTH]>>],
                    10, "*", "Cyan")

set_sun(W, center) ==
  spawn_effect_ring([W EXCEPT !.sun = <<[center |-> center, radius |-> SUN_PULSE_RADIUS,
                                         strength |-> SUN_PULSE_STRENGTH]>>],
                    10, "*", "Cyan")

\* set_sun(center) with a center of centers, for at most max calls
SetSunIn(centers, max) ==
  /\ pc = "idle"
  /\ suns < max
  /\ \E center \in centers :
       /\ \E W \in {set_sun(World, center)} : Commit(W)
       /\ last_op' = [NoOp("set_sun", words) EXCEPT !.args = <<center>>]
  /\ suns' = suns + 1
  /\ UNCHANGED <<spatial, pc, tick_dt, ticks, adds>>

SetSun == SetSunIn(SunCenterSet, MaxSuns)

\* ------------------------------------------------------------------------
\* World::tick, one action per call it makes
\* ------------------------------------------------------------------------

rebuild_spatial_index(W, cells) ==
  rebuild(cells, SPATIAL_CELL_SIZE, [k \in 1..Len(W.words) |-> W.words[k].pos])

\* tick(dt) is entered: the counters are reset and the spatial index rebuilt
TickStart ==
  /\ pc = "idle"
  /\ ticks < MaxTicks
  /\ \E dt \in DtSet : tick_dt' = dt
  /\ spatial' = rebuild_spatial_index(World, spatial)
  /\ ticks' = ticks + 1
  /\ pc' = "apply_gravity_nearby"
  /\ last_op' = NoOp("rebuild_spatial_index", words)
  /\ UNCHANGED <<words, events, sun, effects, effect_cursor, dust_pool, next_id,
                 text_index, word_indices, adds, suns>>

ApplyGravityNearby ==
  /\ pc = "apply_gravity_nearby"
  /\ \E W \in {apply_gravity_nearby(World, spatial, tick_dt)} : Commit(W)
  /\ pc' = "integrate"
  /\ last_op' = NoOp("apply_gravity_nearby", words)
  /\ UNCHANGED <<spatial, tick_dt, ticks, adds, suns>>

Integrate ==
  /\ pc = "integrate"
  /\ \E W \in {integrate(World, tick_dt)} : Commit(W)
  /\ pc' = "resolve_collisions"
  /\ last_op' = NoOp("integrate", words)
  /\ UNCHANGED <<spatial, tick_dt, ticks, adds, suns>>

\* resolve_collisions, followed by emit_events (which does nothing)
ResolveCollisions ==
  /\ pc = "resolve_collisions"
  /\ \E W \in {resolve_collisions(World, spatial)} : Commit(W)
  /\ pc' = "apply_events"
  /\ last_op' = NoOp("resolve_collisions", words)
  /\ UNCHANGED <<spatial, tick_dt, ticks, adds, suns>>

ApplyEvents ==
  /\ pc = "apply_events"
  /\ \E tape \in Tapes(World, events, 1, {}) :
       /\ \E W \in {apply_events(World, tape)} : Commit(W)
       /\ \E A \in {ApplyEventsLoop(World, tape)} :
            last_op' = [NoOp("apply_events", words) EXCEPT
                          !.evs = events, !.consumed = A.consumed, !.to_add = A.to_add,
                          !.made = [k \in 1..Len(events) |-> PushedBy(World, tape, k)]]
  /\ pc' = "consolidate_duplicates"
  /\ UNCHANGED <<spatial, tick_dt, ticks, adds, suns>>

ConsolidateDuplicates ==
  /\ pc = "consolidate_duplicates"
  /\ \E W \in {consolidate_duplicates(World)} : Commit(W)
  /\ pc' = "weathering_step"
  /\ last_op' = NoOp("consolidate_duplicates", words)
  /\ UNCHANGED <<spatial, tick_dt, ticks, adds, suns>>

WeatheringStep ==
  /\ pc = "weathering_step"
  /\ \E W \in {weathering_step(World, tick_dt)} : Commit(W)
  /\ pc' = "autogenesis_step"
  /\ last_op' = NoOp("weathering_step", words)
  /\ UNCHANGED <<spatial, tick_dt, ticks, adds, suns>>

\* the keys of dust_pool that take the spawn branch of autogenesis_step.
\* The iterations of "for key in keys" for the other keys commute with every
\* iteration, so only the order of the spawning keys is drawn.
SpawnKeys(W) ==
  {key \in DOMAIN W.dust_pool : RGt(W.dust_pool[key], Zero) /\ key \notin DOMAIN W.text_index}

AutogenesisStep ==
  /\ pc = "autogenesis_step"
  /\ LET updated == CHOOSE o \in Orders((DOMAIN dust_pool) \ SpawnKeys(World)) : TRUE
     IN  \E spawned \in Orders(SpawnKeys(World)) :
           \E tape \in [1..(Len(updated) + Len(spawned)) -> AutoDrawSet] :
             \E W \in {autogenesis_step(World, tick_dt, updated \o spawned, tape)} : Commit(W)
  /\ pc' = "update_effects"
  /\ last_op' = NoOp("autogenesis_step", words)
  /\ UNCHANGED <<spatial, tick_dt, ticks, adds, suns>>

\* update_effects, after which tick returns
UpdateEffects ==
  /\ pc = "update_effects"
  /\ \E W \in {update_effects(World, tick_dt)} : Commit(W)
  /\ pc' = "idle"
  /\ last_op' = NoOp("update_effects", words)
  /\ UNCHANGED <<spatial, tick_dt, ticks, adds, suns>>

Next ==
  \/ AddWord
  \/ SetSun
  \/ TickStart
  \/ ApplyGravityNearby
  \/ Integrate
  \/ ResolveCollisions
  \/ ApplyEvents
  \/ ConsolidateDuplicates
  \/ WeatheringStep
  \/ AutogenesisStep
  \/ UpdateEffects

Spec == Init /\ [][Next]_vars

\* ------------------------------------------------------------------------
\* apply_events on its own: a world in which resolve_collisions has queued
\* a Split for each word of a colliding pair
\* ------------------------------------------------------------------------

\* texts of 1, 2, 3 and 5 components
SplitTextSet ==
  {join(<< <<"a">> >>), join(<< <<"a">>, <<"b">> >>), join(<< <<"a">>, <<"b">>, <<"c">> >>),
   join(<< <<"a">>, <<"b">>, <<"c">>, <<"d">>, <<"e">> >>)}

\* (mass_visible, mass_dust) of the first word
SplitMassSet == {<<I(4), Zero>>, <<I(3), One>>, <<One, Zero>>}

\* the text of the second word
PartnerTextSet == {<<"a">>, <<"z">>}

SplitWorld(text, mass, partner) ==
  LET queued(W) ==
        [W EXCEPT !.events = << Split(W.words[1].id), Split(W.words[Len(W.words)].id) >>]
  IN  queued(SpawnAll(EmptyWorld,
                      << SpawnRequest(text, VZERO, VZERO, mass[1], mass[2]),
                         SpawnRequest(partner, Vec2(One, Zero), VZERO, I(3), Zero) >>, 1))

InitSplit ==
  \E text \in SplitTextSet, mass \in SplitMassSet, partner \in PartnerTextSet :
    \E W \in {SplitWorld(text, mass, partner)} :
      /\ words = W.words
      /\ events = W.events
      /\ sun = W.sun
      /\ effects = W.effects
      /\ effect_cursor = W.effect_cursor
      /\ dust_pool = W.dust_pool
      /\ next_id = W.next_id
      /\ text_index = W.text_index
      /\ word_indices = W.word_indices
      /\ spatial = rebuild_spatial_index(W, EmptyMap)
      /\ pc = "apply_events"
      /\ tick_dt = DT
      /\ ticks = 1
      /\ adds = 0
      /\ suns = 0
      /\ last_op = NoOp("resolve_collisions", W.words)

NextSplit == ApplyEvents

SpecSplit == InitSplit /\ [][NextSplit]_vars

\* ------------------------------------------------------------------------
\* consolidate_duplicates on its own: as in the unit test
\* merges_words_with_same_text, words is cleared, the indices are cleared
\* and words with ids from next_id() are pushed
\* ------------------------------------------------------------------------

MaxWords == 3

ConsolidateTextSet == {<<"A">>, <<"B">>}

\* (pos.x, vel.x, mass_visible, mass_dust) of a pushed word
ConsolidateKindSet ==
  {<<Zero, One, I(10), Zero>>, <<I(10), RNeg(One), I(5), Zero>>, <<I(4), Zero, I(2), One>>}

PushedWord(id, text, kind) ==
  [id |-> id, text |-> text, pos |-> Vec2(kind[1], Zero), vel |-> Vec2(kind[2], Zero),
   radius |-> One, mass_total |-> RAdd(kind[3], kind[4]),
   mass_visible |-> kind[3], mass_dust |-> kind[4],
   flags |-> [can_split |-> FALSE],
   trail |-> [k \in 1..TRAIL_LEN |-> VZERO], trail_head |-> 0, trail_len |-> 0]

ConsolidateWorld(texts, kinds) ==
  LET pushed(W) ==
        [W EXCEPT !.words = [k \in 1..Len(texts) |->
                               PushedWord(W.next_id + k - 1, texts[k], kinds[k])],
                  !.text_index = EmptyMap,
                  !.word_indices = EmptyMap,
                  !.next_id = @ + Len(texts)]
  IN  pushed(NewWorld([k \in 1..INIT_WORDS |-> [word |-> 1, pos |-> VZERO, vel |-> VZERO]]))

InitConsolidate ==
  \E n \in 0..MaxWords :
    \E texts \in [1..n -> ConsolidateTextSet], kinds \in [1..n -> ConsolidateKindSet] :
      \E W \in {ConsolidateWorld(texts, kinds)} :
        /\ words = W.words
        /\ events = W.events
        /\ sun = W.sun
        /\ effects = W.effects
        /\ effect_cursor = W.effect_cursor
        /\ dust_pool = W.dust_pool
        /\ next_id = W.next_id
        /\ text_index = W.text_index
        /\ word_indices = W.word_indices
        /\ spatial = EmptyMap
        /\ pc = "consolidate_duplicates"
        /\ tick_dt = DT
        /\ ticks = 1
        /\ adds = 0
        /\ suns = 0
        /\ last_op = NoOp("new", <<>>)

NextConsolidate == ConsolidateDuplicates

SpecConsolidate == InitConsolidate /\ [][NextConsolidate]_vars

\* ------------------------------------------------------------------------
\* snapshot on its own: worlds as weathering leaves them (words at, above
\* and below MIN_VISIBLE_MASS), with texts that are short, joined, and
\* longer than TEXT_MAX_DRAW, and a caller's list that is empty or still
\* holds the entries of an earlier frame
\* ------------------------------------------------------------------------

SnapshotTextSet ==
  {<<"a">>, <<"a", WORD_JOIN_SEP, "b">>, [k \in 1..(TEXT_MAX_DRAW + 1) |-> "x"]}

\* (mass_visible, mass_dust) of a word
SnapshotMassSet ==
  {<<RDiv(MIN_VISIBLE_MASS, I(2)), I(4)>>, <<MIN_VISIBLE_MASS, Zero>>, <<I(18), Zero>>}

SnapshotWorld(texts, masses) ==
  rebuild_index_map(rebuild_text_index(
    SpawnAll(EmptyWorld,
             [k \in 1..Len(texts) |->
                SpawnRequest(texts[k], Vec2(I(k), Zero), VZERO, masses[k][1], masses[k][2])],
             1)))

\* the list the caller passes: new, or filled by the snapshot of an earlier frame
OutSet == {<<>>, snapshot(SnapshotWorld(<<<<"z">>>>, <<<<I(7), Zero>>>>), <<>>)}

InitSnapshot ==
  \E n \in 1..INIT_WORDS :
    \E texts \in [1..n -> SnapshotTextSet], masses \in [1..n -> SnapshotMassSet] :
      \E W \in {SnapshotWorld(texts, masses)} :
        /\ words = W.words
        /\ events = W.events
        /\ sun = W.sun
        /\ effects = W.effects
        /\ effect_cursor = W.effect_cursor
        /\ dust_pool = W.dust_pool
        /\ next_id = W.next_id
        /\ text_index = W.text_index
        /\ word_indices = W.word_indices
        /\ spatial = EmptyMap
        /\ pc = "idle"
        /\ tick_dt = Zero
        /\ ticks = 0
        /\ adds = 0
        /\ suns = 0
        /\ last_op = NoOp("new", <<>>)

\* snapshot(&self, out) between two public operations
Snapshot ==
  /\ pc = "idle"
  /\ \E out \in OutSet :
       last_op' = [NoOp("snapshot", words) EXCEPT !.args = <<out>>,
                                                  !.out = snapshot(World, out)]
  /\ UNCHANGED <<words, events, spatial, sun, effects, effect_cursor, dust_pool, next_id,
                 text_index, word_indices, pc, tick_dt, ticks, adds, suns>>

NextSnapshot == Snapshot

SpecSnapshot == InitSnapshot /\ [][NextSnapshot]_vars

\* ------------------------------------------------------------------------
\* The sun and the effect pool on their own: set_sun as in Spec, with more
\* calls and two centers, and ticks in which no word meets another.  In such a tick update_effects is the only call that
\* writes the effect pool; what the other calls do to the words is left to
\* Spec, and the number of these ticks is not bounded.
\* ------------------------------------------------------------------------

MaxRings == 4

RingCenterSet == {Vec2(Zero, Zero), Vec2(I(40), Zero)}

\* steps under which a particle lives for one tick or for two
EffectDtSet == {Rat(1, 2), Rat(1, 5)}

SetSunAgain == SetSunIn(RingCenterSet, MaxRings)

TickEffects ==
  /\ pc = "idle"
  /\ \E dt \in EffectDtSet :
       /\ \E W \in {update_effects(World, dt)} : Commit(W)
       /\ tick_dt' = dt
  /\ ticks' = IF ticks < MaxTicks THEN ticks + 1 ELSE ticks
  /\ last_op' = NoOp("update_effects", words)
  /\ UNCHANGED <<spatial, pc, adds, suns>>

NextEffects ==
  \/ SetSunAgain
  \/ TickEffects

\* World::new with every word spawned at the origin
InitEffects == InitFrom({d \in InitDrawSet : d.pos = VZERO})

SpecEffects == InitEffects /\ [][NextEffects]_vars

\* The same with one center, and with the ticks that the main loop keeps
\* making: it calls tick whenever config::DT of time has passed.
SetSunOften == SetSunIn(SunCenterSet, MaxRings)

NextEffectsFair ==
  \/ SetSunOften
  \/ TickEffects

SpecEffectsFair == InitEffects /\ [][NextEffectsFair]_vars /\ WF_vars(TickEffects)

\* ------------------------------------------------------------------------
\* integrate on its own, called repeatedly as in the unit tests of
\* wall_reflection: one word inside the world, on a wall, or beyond a wall
\* (where add_word, a split or the overlap correction of
\* resolve_collisions can leave it), with a velocity towards either side
\* ------------------------------------------------------------------------

MaxSteps == 2

IntegratePosSet ==
  {Vec2(x, y) : x \in {Zero, I(119), WORLD_HALF_WIDTH, I(121), I(-121)},
                y \in {Zero, I(59), I(61), I(-61)}}

IntegrateVelSet == {Vec2(x, y) : x \in {I(-10), Zero, I(10)}, y \in {I(-10), Zero, I(100)}}

InitIntegrate ==
  \E pos \in IntegratePosSet, vel \in IntegrateVelSet, dt \in DtSet :
    \E W \in {SpawnAll(EmptyWorld, <<SpawnRequest(<<"t">>, pos, vel, I(10), Zero)>>, 1)} :
      /\ words = W.words
      /\ events = W.events
      /\ sun = W.sun
      /\ effects = W.effects
      /\ effect_cursor = W.effect_cursor
      /\ dust_pool = W.dust_pool
      /\ next_id = W.next_id
      /\ text_index = W.text_index
      /\ word_indices = W.word_indices
      /\ spatial = EmptyMap
      /\ pc = "integrate"
      /\ tick_dt = dt
      /\ ticks = 0
      /\ adds = 0
      /\ suns = 0
      /\ last_op = NoOp("new", <<>>)

\* world.integrate(dt), for the ticks-th time
IntegrateAlone ==
  /\ pc = "integrate"
  /\ ticks < MaxSteps
  /\ \E W \in {integrate(World, tick_dt)} : Commit(W)
  /\ ticks' = ticks + 1
  /\ last_op' = NoOp("integrate", words)
  /\ UNCHANGED <<spatial, pc, tick_dt, adds, suns>>

NextIntegrate == IntegrateAlone

SpecIntegrate == InitIntegrate /\ [][NextIntegrate]_vars

\* ------------------------------------------------------------------------
\* The spatial hash on its own, as its unit tests drive it: new with a
\* cell size that is valid or not, then rebuilds and queries.  After new,
\* args[1] of last_op is the cell_size of the hash; after a rebuild,
\* args[2] is the positions it was given.
\* ------------------------------------------------------------------------

CellSizeSet == {Zero, I(-1), INFINITY, NEG_INFINITY, NAN, I(10), SPATIAL_CELL_SIZE}

\* points of the cells (0,0), (1,-1) and (2,1) for cell_size 10; also the
\* centers of the queries
PointSet == {Vec2(I(5), I(5)), Vec2(I(15), I(-1)), Vec2(I(25), I(15))}

\* before SpatialHash::new
InitSpatial ==
  /\ words = <<>>
  /\ events = <<>>
  /\ sun = <<>>
  /\ effects = <<>>
  /\ effect_cursor = 0
  /\ dust_pool = EmptyMap
  /\ next_id = 1
  /\ text_index = EmptyMap
  /\ word_indices = EmptyMap
  /\ spatial = EmptyMap
  /\ pc = "start"
  /\ tick_dt = Zero
  /\ ticks = 0
  /\ adds = 0
  /\ suns = 0
  /\ last_op = NoOp("start", <<>>)

\* SpatialHash::new(cell_size); a panic ends the run
SpatialNew ==
  /\ pc = "start"
  /\ \E cell_size \in CellSizeSet : \E hash \in {SpatialHashNew(cell_size)} :
       /\ last_op' = [NoOp("new", words) EXCEPT !.args = <<cell_size>>, !.out = hash]
       /\ pc' = IF "panic" \in DOMAIN hash THEN "panic" ELSE "idle"
       /\ spatial' = IF "panic" \in DOMAIN hash THEN spatial ELSE hash.cells
  /\ UNCHANGED <<words, events, sun, effects, effect_cursor, dust_pool, next_id,
                 text_index, word_indices, tick_dt, ticks, adds, suns>>

\* rebuild(positions), for the ticks-th time
SpatialRebuild ==
  /\ pc = "idle"
  /\ ticks < MaxTicks
  /\ \E n \in 0..MaxWords : \E positions \in [1..n -> PointSet] :
       /\ spatial' = rebuild(spatial, last_op.args[1], positions)
       /\ last_op' = [NoOp("rebuild", words) EXCEPT !.args = <<last_op.args[1], positions>>]
  /\ ticks' = ticks + 1
  /\ UNCHANGED <<words, events, sun, effects, effect_cursor, dust_pool, next_id,
                 text_index, word_indices, pc, tick_dt, adds, suns>>

\* query_neighbors_range(pos, range, out)
SpatialQuery ==
  /\ pc = "idle"
  /\ ticks > 0
  /\ \E pos \in PointSet, range \in -1..2 :
       last_op' = [NoOp("query_neighbors_range", words) EXCEPT
                     !.args = <<last_op.args[1], last_op.args[2], pos, range>>,
                     !.out = query_neighbors_range(last_op.args[1], spatial, pos, range)]
  /\ UNCHANGED <<words, events, spatial, sun, effects, effect_cursor, dust_pool, next_id,
                 text_index, word_indices, pc, tick_dt, ticks, adds, suns>>

NextSpatial ==
  \/ SpatialNew
  \/ SpatialRebuild
  \/ SpatialQuery

SpecSpatial == InitSpatial /\ [][NextSpatial]_vars

\* ------------------------------------------------------------------------
\* gravity_cutoff_weight in f32: every operation rounds its result to the
\* nearest f32 (ties to even).  An f32 is s * m * 2^e with s the sign and
\* m = 0 or 2^23 <= m < 2^24; the values here stay far from the exponent
\* range's ends, so there are no subnormals and no overflow.
\* ------------------------------------------------------------------------

F32Zero == [s |-> 1, m |-> 0, e |-> 0]

BitLen(M) == CHOOSE k \in 1..30 : 2^(k - 1) <= M /\ M < 2^k

\* s * (M + f) * 2^e, 0 < M < 2^30, with 0 < f < 1 if sticky and f = 0 if
\* not, rounded to an f32
F32Round(s, M, e, sticky) ==
  IF M = 0 THEN F32Zero
  ELSE IF BitLen(M) <= 24
         THEN [s |-> s, m |-> M * 2^(24 - BitLen(M)), e |-> e - (24 - BitLen(M))]
  ELSE LET k    == BitLen(M) - 24
           q    == M \div 2^k
           rem  == M % 2^k
           half == 2^(k - 1)
           up   == \/ rem > half
                   \/ rem = half /\ (sticky \/ q % 2 = 1)
           m    == IF up THEN q + 1 ELSE q
       IN  IF m = 2^24 THEN [s |-> s, m |-> 2^23, e |-> e + k + 1]
           ELSE [s |-> s, m |-> m, e |-> e + k]

\* an integer as f32 (exact below 2^24)
F32Int(n) == F32Round(IF n < 0 THEN -1 ELSE 1, Abs(n), 0, FALSE)

F32Neg(a) == IF a.m = 0 THEN a ELSE [a EXCEPT !.s = -a.s]

\* |a| < |b|
F32MagLt(a, b) ==
  IF a.m = 0 THEN b.m # 0
  ELSE IF b.m = 0 THEN FALSE
  ELSE a.e < b.e \/ (a.e = b.e /\ a.m < b.m)

F32Lt(a, b) ==
  IF a.m = 0 /\ b.m = 0 THEN FALSE
  ELSE IF a.m = 0 THEN b.s = 1
  ELSE IF b.m = 0 THEN a.s = -1
  ELSE IF a.s # b.s THEN a.s = -1
  ELSE IF a.s = 1 THEN F32MagLt(a, b) ELSE F32MagLt(b, a)

F32Le(a, b) == a = b \/ F32Lt(a, b)

F32Ge(a, b) == F32Le(b, a)

\* a + b for |a| >= |b|, a # 0: three guard bits on a, b shifted right
\* under them, the bits shifted out kept as a sticky mark
F32AddOrdered(a, b) ==
  LET d      == a.e - b.e
      A      == a.m * 8
      shift  == IF d > 27 THEN 27 ELSE d
      B      == (b.m * 8) \div 2^shift
      sticky == (b.m * 8) % 2^shift # 0
  IN  IF b.m = 0 THEN a
      ELSE IF a.s = b.s THEN F32Round(a.s, A + B, a.e - 3, sticky)
      ELSE F32Round(a.s, A - B - (IF sticky THEN 1 ELSE 0), a.e - 3, sticky)

F32Add(a, b) == IF F32MagLt(a, b) THEN F32AddOrdered(b, a) ELSE F32AddOrdered(a, b)

F32Sub(a, b) == F32Add(a, F32Neg(b))

\* a * b: the 48-bit product of the mantissas from 12-bit halves, as
\* hi * 2^24 + lo
F32Mul(a, b) ==
  LET a1  == a.m \div 4096
      a0  == a.m % 4096
      b1  == b.m \div 4096
      b0  == b.m % 4096
      mid == a1 * b0 + a0 * b1
      low == a0 * b0 + (mid % 4096) * 4096
      lo  == low % 2^24
      hi  == a1 * b1 + mid \div 4096 + low \div 2^24
  IN  IF a.m = 0 \/ b.m = 0 THEN F32Zero
      ELSE F32Round(a.s * b.s, hi * 64 + lo \div 2^18, a.e + b.e + 18, lo % 2^18 # 0)

\* the quotient bits of rem / den, most significant first
RECURSIVE F32DivBits(_, _, _, _)
F32DivBits(rem, den, bits, acc) ==
  IF bits = 0 THEN [q |-> acc, inexact |-> rem # 0]
  ELSE IF 2 * rem >= den THEN F32DivBits(2 * rem - den, den, bits - 1, 2 * acc + 1)
  ELSE F32DivBits(2 * rem, den, bits - 1, 2 * acc)

\* a / b, b # 0: 26 fraction bits of the quotient of the mantissas
F32Div(a, b) ==
  IF a.m = 0 THEN F32Zero
  ELSE LET r == F32DivBits(a.m % b.m, b.m, 26, a.m \div b.m)
       IN  F32Round(a.s * b.s, r.q, a.e - b.e - 26, r.inexact)

\* an f32 constant written as the decimal fraction n / d
F32Of(x) == F32Div(F32Int(x.n), F32Int(x.d))

\* f32::clamp
F32Clamp(x, lo, hi) == IF F32Lt(x, lo) THEN lo ELSE IF F32Lt(hi, x) THEN hi ELSE x

smoothstep_f32(edge0, edge1, x) ==
  IF F32Le(edge1, edge0) THEN (IF F32Lt(x, edge1) THEN F32Int(1) ELSE F32Zero)
  ELSE LET poly(t) == F32Mul(F32Mul(t, t), F32Sub(F32Int(3), F32Mul(F32Int(2), t)))
       IN  poly(F32Clamp(F32Div(F32Sub(x, edge0), F32Sub(edge1, edge0)),
                         F32Zero, F32Int(1)))

gravity_cutoff_weight_f32(r, cutoff) ==
  IF F32Le(cutoff, F32Zero) THEN F32Zero
  ELSE LET faded(fade_start) ==
             IF F32Ge(r, cutoff) THEN F32Zero
             ELSE IF F32Le(r, fade_start) THEN F32Int(1)
             ELSE F32Sub(F32Int(1), smoothstep_f32(fade_start, cutoff, r))
       IN  faded(F32Mul(cutoff, F32Of(GRAVITY_CUTOFF_FADE_START)))

\* ------------------------------------------------------------------------
\* gravity_cutoff_weight on its own, as its unit tests call it: the inputs
\* are drawn first (args of last_op: r, a second distance r2, cutoff), then
\* the function is applied to both distances (out of last_op).
\* ------------------------------------------------------------------------

\* the k-th f32 above a (k < 0: below), within the binade of a
F32Step(a, k) == [a EXCEPT !.m = @ + k]

\* distances around the fade start (70) and the cutoff of the unit tests
\* (100), and the f32 values next to both
WeightDistSet ==
  {F32Int(10), F32Int(70), F32Step(F32Int(70), 1), F32Step(F32Int(70), 2), F32Int(85),
   F32Int(95), F32Step(F32Int(100), -1), F32Int(100), F32Int(150)}

WeightCutoffSet == {F32Zero, F32Int(-1), F32Int(100), F32Of(GRAVITY_CUTOFF)}

InitWeight ==
  /\ words = <<>>
  /\ events = <<>>
  /\ sun = <<>>
  /\ effects = <<>>
  /\ effect_cursor = 0
  /\ dust_pool = EmptyMap
  /\ next_id = 1
  /\ text_index = EmptyMap
  /\ word_indices = EmptyMap
  /\ spatial = EmptyMap
  /\ pc = "start"
  /\ tick_dt = Zero
  /\ ticks = 0
  /\ adds = 0
  /\ suns = 0
  /\ \E r \in WeightDistSet, r2 \in WeightDistSet, cutoff \in WeightCutoffSet :
       last_op = [NoOp("start", <<>>) EXCEPT !.args = <<r, r2, cutoff>>]

Weigh ==
  /\ pc = "start"
  /\ pc' = "done"
  /\ last_op' = [NoOp("gravity_cutoff_weight", words) EXCEPT
                   !.args = last_op.args,
                   !.out = <<gravity_cutoff_weight_f32(last_op.args[1], last_op.args[3]),
                             gravity_cutoff_weight_f32(last_op.args[2], last_op.args[3])>>]
  /\ UNCHANGED <<words, events, spatial, sun, effects, effect_cursor, dust_pool, next_id,
                 text_index, word_indices, tick_dt, ticks, adds, suns>>

NextWeight == Weigh

SpecWeight == InitWeight /\ [][NextWeight]_vars

\* ------------------------------------------------------------------------
\* resolve_collisions and the apply_events that follows it: a tick that has
\* reached the collision stage with two to MaxWords words of different
\* texts on the x axis, the spatial index holding their positions and the
\* event queue empty.
\* ------------------------------------------------------------------------

\* the first and the third text have two components
CollideTextList ==
  << join(<< <<"p">>, <<"x">> >>), <<"q">>, join(<< <<"r">>, <<"y">> >>), <<"s">> >>

\* (pos.x, vel.x, mass_visible, mass_dust) of a word.  The radius of a word
\* of mass 10 is 1.8, so words at 0 and 2 (or at the same place) overlap
\* and a word at 40 is apart from them; speeds of 0, 7 and 16 lie at either
\* side of MERGE_REL_SPEED_MAX and SPLIT_REL_SPEED_MIN, and so do their
\* values times RESTITUTION; masses of 1 and 60 against 10 are beyond and
\* at TIDAL_MASS_RATIO; a mass of 1/10 is below MIN_VISIBLE_MASS
CollideKindSet ==
  {<<Zero, Zero, I(10), Zero>>,
   <<I(2), I(-7), I(10), Zero>>,
   <<I(2), I(-16), I(10), Zero>>,
   <<I(2), Zero, One, Zero>>,
   <<I(2), I(-7), One, Zero>>,
   <<I(2), I(-7), I(60), Zero>>,
   <<I(2), Zero, Rat(1, 10), Zero>>,
   <<I(40), Zero, I(10), Zero>>}

CollideWorld(kinds) ==
  SpawnAll(EmptyWorld,
           [k \in 1..Len(kinds) |->
              SpawnRequest(CollideTextList[k], Vec2(kinds[k][1], Zero),
                           Vec2(kinds[k][2], Zero), kinds[k][3], kinds[k][4])], 1)

InitCollide ==
  \E n \in 2..MaxWords : \E kinds \in [1..n -> CollideKindSet] :
    \E W \in {CollideWorld(kinds)} :
      /\ words = W.words
      /\ events = W.events
      /\ sun = W.sun
      /\ effects = W.effects
      /\ effect_cursor = W.effect_cursor
      /\ dust_pool = W.dust_pool
      /\ next_id = W.next_id
      /\ text_index = W.text_index
      /\ word_indices = W.word_indices
      /\ spatial = rebuild_spatial_index(W, EmptyMap)
      /\ pc = "resolve_collisions"
      /\ tick_dt = DT
      /\ ticks = 1
      /\ adds = 0
      /\ suns = 0
      /\ last_op = NoOp("integrate", W.words)

NextCollide ==
  \/ ResolveCollisions
  \/ ApplyEvents

SpecCollide == InitCollide /\ [][NextCollide]_vars

\* ------------------------------------------------------------------------
\* apply_gravity_nearby on its own: a tick that has rebuilt the spatial
\* index over two to MaxWords words of different texts on the x axis, some
\* of them below MIN_VISIBLE_MASS, and has no sun.
\* ------------------------------------------------------------------------

\* (pos.x, vel.x, mass_visible, mass_dust) of a word: at 0 and at 2, 40 and
\* 90 from it (90 lies in the fade of the cutoff), with masses of 10, of 1/10
\* (below MIN_VISIBLE_MASS and GRAVITY_MIN_MASS) and of 0
GravityKindSet ==
  {<<Zero, Zero, I(10), Zero>>,
   <<Zero, One, Rat(1, 10), Zero>>,
   <<I(2), Zero, Rat(1, 10), Zero>>,
   <<I(2), Zero, Zero, One>>,
   <<I(40), Zero, I(10), Zero>>,
   <<I(40), Zero, Rat(1, 10), One>>,
   <<I(90), Zero, Rat(1, 10), Zero>>}

InitGravity ==
  \E n \in 2..MaxWords : \E kinds \in [1..n -> GravityKindSet] :
    \E W \in {CollideWorld(kinds)} :
      /\ words = W.words
      /\ events = W.events
      /\ sun = W.sun
      /\ effects = W.effects
      /\ effect_cursor = W.effect_cursor
      /\ dust_pool = W.dust_pool
      /\ next_id = W.next_id
      /\ text_index = W.text_index
      /\ word_indices = W.word_indices
      /\ spatial = rebuild_spatial_index(W, EmptyMap)
      /\ pc = "apply_gravity_nearby"
      /\ tick_dt = DT
      /\ ticks = 1
      /\ adds = 0
      /\ suns = 0
      /\ last_op = NoOp("rebuild_spatial_index", W.words)

NextGravity == ApplyGravityNearby

SpecGravity == InitGravity /\ [][NextGravity]_vars

\* ------------------------------------------------------------------------
\* Ticks of a world whose initial words lie next to the right-hand wall:
\* spawn_initial_words draws each position from the whole world and each
\* velocity component from gen_range(-6.0..6.0)
\* ------------------------------------------------------------------------

BoundsPosSet == {Vec2(RSub(WORLD_HALF_WIDTH, I(2)), Zero),
                 Vec2(RSub(WORLD_HALF_WIDTH, Rat(1, 2)), Zero)}

BoundsVelSet == {Vec2(I(-6), Zero), Vec2(I(3), Zero)}

BoundsDrawSet == [word : 1..Len(word_list), pos : BoundsPosSet, vel : BoundsVelSet]

InitBounds == InitFrom(BoundsDrawSet)

NextBounds ==
  \/ TickStart
  \/ ApplyGravityNearby
  \/ Integrate
  \/ ResolveCollisions
  \/ ApplyEvents
  \/ ConsolidateDuplicates
  \/ WeatheringStep
  \/ AutogenesisStep
  \/ UpdateEffects

SpecBounds == InitBounds /\ [][NextBounds]_vars

\* ------------------------------------------------------------------------
\* set_sun and the ticks that the main loop keeps making: it calls tick
\* whenever config::DT of time has passed (weak fairness of TickStart), and
\* every call of tick returns (pc is "idle" again and again)
\* ------------------------------------------------------------------------

NextSunFair ==
  \/ SetSun
  \/ TickStart
  \/ ApplyGravityNearby
  \/ Integrate
  \/ ResolveCollisions
  \/ ApplyEvents
  \/ ConsolidateDuplicates
  \/ WeatheringStep
  \/ AutogenesisStep
  \/ UpdateEffects

SpecSunFair ==
  InitEffects /\ [][NextSunFair]_vars /\ WF_vars(TickStart) /\ []<>(pc = "idle")

\* ------------------------------------------------------------------------
\* split_groups on its own, as the unit tests call it: a list of 2 to
\* MaxComponents components and a part count of 0 to MaxPartsAsked
\* ------------------------------------------------------------------------

GroupComponentSet == {<<"a">>, <<"b">>, <<"c", "d">>}

GroupListSet == UNION {[1..n -> GroupComponentSet] : n \in 2..MaxComponents}

InitGroups ==
  /\ words = <<>>
  /\ events = <<>>
  /\ sun = <<>>
  /\ effects = <<>>
  /\ effect_cursor = 0
  /\ dust_pool = EmptyMap
  /\ next_id = 1
  /\ text_index = EmptyMap
  /\ word_indices = EmptyMap
  /\ spatial = EmptyMap
  /\ pc = "start"
  /\ tick_dt = Zero
  /\ ticks = 0
  /\ adds = 0
  /\ suns = 0
  /\ \E comps \in GroupListSet, parts \in 0..MaxPartsAsked :
       last_op = [NoOp("start", <<>>) EXCEPT !.args = <<comps, parts>>]

SplitGroups ==
  /\ pc = "start"
  /\ pc' = "done"
  /\ last_op' = [NoOp("split_groups", words) EXCEPT
                   !.args = last_op.args,
                   !.out = split_groups(last_op.args[1], last_op.args[2])]
  /\ UNCHANGED <<words, events, spatial, sun, effects, effect_cursor, dust_pool, next_id,
                 text_index, word_indices, tick_dt, ticks, adds, suns>>

NextGroups == SplitGroups

SpecGroups == InitGroups /\ [][NextGroups]_vars

\* ------------------------------------------------------------------------
\* integrate called up to MaxRecords times on one word, as the unit test
\* trail_wraps_around calls record_trail: the word is either spawned (its
\* trail filled with its position, trail_len 1) or pushed as the tests
\* build it (an empty trail)
\* ------------------------------------------------------------------------

TrailPosSet == {VZERO, Vec2(I(5), Zero)}

TrailVelSet == {VZERO, Vec2(One, Zero), Vec2(I(-2), Zero), Vec2(Zero, One)}

TrailWorld(pos, vel, spawned) ==
  LET W == SpawnAll(EmptyWorld, <<SpawnRequest(<<"t">>, pos, vel, I(10), Zero)>>, 1)
  IN  IF spawned THEN W
      ELSE [W EXCEPT !.words[1].trail = [k \in 1..TRAIL_LEN |-> VZERO],
                     !.words[1].trail_head = 0,
                     !.words[1].trail_len = 0]

InitTrail ==
  \E pos \in TrailPosSet, vel \in TrailVelSet, dt \in DtSet, spawned \in BOOLEAN :
    \E W \in {TrailWorld(pos, vel, spawned)} :
      /\ words = W.words
      /\ events = W.events
      /\ sun = W.sun
      /\ effects = W.effects
      /\ effect_cursor = W.effect_cursor
      /\ dust_pool = W.dust_pool
      /\ next_id = W.next_id
      /\ text_index = W.text_index
      /\ word_indices = W.word_indices
      /\ spatial = EmptyMap
      /\ pc = "integrate"
      /\ tick_dt = dt
      /\ ticks = 0
      /\ adds = 0
      /\ suns = 0
      /\ last_op = NoOp("new", <<>>)

\* world.integrate(dt), for the ticks-th time
IntegrateOften ==
  /\ pc = "integrate"
  /\ ticks < MaxRecords
  /\ \E W \in {integrate(World, tick_dt)} : Commit(W)
  /\ ticks' = ticks + 1
  /\ last_op' = NoOp("integrate", words)
  /\ UNCHANGED <<spatial, pc, tick_dt, adds, suns>>

NextTrail == IntegrateOften

SpecTrail == InitTrail /\ [][NextTrail]_vars

\* ------------------------------------------------------------------------
\* Properties
\* ------------------------------------------------------------------------

Ids(ws) == {ws[k].id : k \in 1..Len(ws)}

WordOf(ws, id) == ws[First(IndicesWithId(ws, id))]

\* World::stats: the sum of mass_total over the words
RECURSIVE MassFrom(_, _)
MassFrom(ws, k) ==
  IF k > Len(ws) THEN Zero ELSE RAdd(ws[k].mass_total, MassFrom(ws, k + 1))

TotalMass(ws) == MassFrom(ws, 1)

UniqueTexts(ws) == \A j, k \in 1..Len(ws) : j # k => ws[j].text # ws[k].text

HasEffect(glyph, color) ==
  \E k \in 1..Len(effects) : effects[k].glyph = glyph /\ effects[k].color = color

\* the calls World::tick makes
TickOps ==
  {"rebuild_spatial_index", "apply_gravity_nearby", "integrate", "resolve_collisions",
   "apply_events", "consolidate_duplicates", "weathering_step", "autogenesis_step",
   "update_effects"}

\* the ids consumed by the events before the k-th, as apply_events decides it:
\* a Merge applies when both words are live and unconsumed, a Split when
\* its word is live, unconsumed and eligible
Eligible(w) ==
  /\ w.flags.can_split
  /\ RGt(w.mass_total, One)
  /\ Len(components(w.text)) >= 2

RECURSIVE GoneBefore(_, _, _)
GoneBefore(pre, evs, k) ==
  IF k <= 1 THEN {}
  ELSE LET gone == GoneBefore(pre, evs, k - 1)
           ev   == evs[k - 1]
       IN  IF ev.type = "Merge"
           THEN IF {ev.a, ev.b} \subseteq (Ids(pre) \ gone) THEN gone \cup {ev.a, ev.b} ELSE gone
           ELSE IF ev.id \in (Ids(pre) \ gone) /\ Eligible(WordOf(pre, ev.id))
                THEN gone \cup {ev.id} ELSE gone

MergeApplied(pre, evs, k) ==
  /\ evs[k].type = "Merge"
  /\ {evs[k].a, evs[k].b} \subseteq (Ids(pre) \ GoneBefore(pre, evs, k))

SplitApplied(pre, evs, k) ==
  /\ evs[k].type = "Split"
  /\ evs[k].id \in (Ids(pre) \ GoneBefore(pre, evs, k))
  /\ Eligible(WordOf(pre, evs[k].id))

\* C1: no call of a tick changes the sum of mass_total over the live
\* words: the structural calls (apply_events, consolidate_duplicates) and
\* weathering_step and autogenesis_step each leave it as it was, and so
\* does the tick as a whole.
C1_MassConserved ==
  last_op.op \in TickOps => TotalMass(words) = TotalMass(last_op.pre)

\* apply_events has consumed words and the sum is positive
C1_Witness ==
  /\ last_op.op = "apply_events"
  /\ last_op.consumed # {}
  /\ RGt(TotalMass(last_op.pre), Zero)

\* C2: every live word has mass_total = mass_visible + mass_dust, after
\* World::new and after every add_word and every call of a tick.
C2_MassTotal ==
  \A k \in 1..Len(words) :
    words[k].mass_total = RAdd(words[k].mass_visible, words[k].mass_dust)

\* between operations, after a tick and an add_word, a word that has both
\* visible mass and dust
C2_Witness ==
  /\ pc = "idle"
  /\ ticks >= 1
  /\ adds >= 1
  /\ \E k \in 1..Len(words) :
       RGt(words[k].mass_visible, Zero) /\ RGt(words[k].mass_dust, Zero)

\* C3: live words have pairwise distinct ids, all below next_id; next_id
\* never decreases; an id that appears is at least the next_id of the
\* state before (so it is above every id handed out earlier, live or
\* removed), and the words that appear in one step carry increasing ids.
C3_Distinct(ws, nid) ==
  /\ \A j, k \in 1..Len(ws) : j # k => ws[j].id # ws[k].id
  /\ \A k \in 1..Len(ws) : ws[k].id < nid

C3_Step ==
  /\ C3_Distinct(words', next_id')
  /\ next_id' >= next_id
  /\ \A k \in 1..Len(words') :
       words'[k].id \notin Ids(words) =>
         /\ words'[k].id >= next_id
         /\ \A j \in 1..(k - 1) : words'[j].id < words'[k].id

C3_UniqueIds == C3_Distinct(words, next_id) /\ [][C3_Step]_vars

\* apply_events has removed words and a word with a larger id has appeared
C3_Witness ==
  /\ last_op.op = "apply_events"
  /\ last_op.consumed # {}
  /\ \E k \in 1..Len(words) :
       /\ words[k].id \notin Ids(last_op.pre)
       /\ \A c \in last_op.consumed : words[k].id > c

\* C4: between operations (after World::new, after add_word, after tick)
\* no two live words hold the same text.
C4_UniqueText ==
  pc = "idle" => UniqueTexts(words)

\* a tick has returned in which a word was split and a request was absorbed
\* by a live word of the same text
C4_Witness ==
  /\ pc = "idle"
  /\ last_op.op = "update_effects"
  /\ HasEffect("*", "Red")
  /\ HasEffect("+", "Magenta")
  /\ Len(words) >= 2

\* C5: for every Merge{a, b} that apply_events applies (both words live and
\* not consumed by an earlier event), neither id is live afterwards and the
\* event pushes exactly one request: mass_visible and mass_dust are the
\* sums, pos and vel the mass_total-weighted means, and the text is the
\* text of the first word, the separator, the text of the second, whose
\* components are those of the first followed by those of the second.
C5_Mean(u, v, mu, mv) ==
  Vec2(RDiv(RAdd(RMul(u.x, mu), RMul(v.x, mv)), RAdd(mu, mv)),
       RDiv(RAdd(RMul(u.y, mu), RMul(v.y, mv)), RAdd(mu, mv)))

C5_MergeOf(pre, ev, req) ==
  LET ia == First(IndicesWithId(pre, ev.a))
      ib == First(IndicesWithId(pre, ev.b))
      s1 == pre[IF ia < ib THEN ia ELSE ib]
      s2 == pre[IF ia < ib THEN ib ELSE ia]
  IN  /\ req.mass_visible = RAdd(s1.mass_visible, s2.mass_visible)
      /\ req.mass_dust = RAdd(s1.mass_dust, s2.mass_dust)
      /\ req.pos = C5_Mean(s1.pos, s2.pos, s1.mass_total, s2.mass_total)
      /\ req.vel = C5_Mean(s1.vel, s2.vel, s1.mass_total, s2.mass_total)
      /\ req.text = s1.text \o <<WORD_JOIN_SEP>> \o s2.text
      /\ components(req.text) = components(s1.text) \o components(s2.text)
      /\ Len(components(req.text)) >= 2

RECURSIVE C6_Flatten(_, _)
C6_Flatten(reqs, k) ==
  IF k > Len(reqs) THEN <<>> ELSE components(reqs[k].text) \o C6_Flatten(reqs, k + 1)

RECURSIVE C6_Mass(_, _)
C6_Mass(reqs, k) ==
  IF k > Len(reqs) THEN Zero
  ELSE RAdd(RAdd(reqs[k].mass_visible, reqs[k].mass_dust), C6_Mass(reqs, k + 1))

C6_Cap(n) ==
  LET least == IF n < SPLIT_PARTS_MAX THEN n ELSE SPLIT_PARTS_MAX
  IN  IF least < SPLIT_PARTS_MIN THEN SPLIT_PARTS_MIN ELSE least

C6_SplitOf(base, reqs) ==
  LET p == Len(reqs)
      n == Len(components(base.text))
  IN  /\ SPLIT_PARTS_MIN <= p
      /\ p <= C6_Cap(n)
      /\ p >= 2
      /\ \A j \in 1..p :
           /\ reqs[j].mass_visible = RDiv(base.mass_visible, I(p))
           /\ reqs[j].mass_dust = RDiv(base.mass_dust, I(p))
           /\ components(reqs[j].text) # <<>>
           /\ reqs[j].text = join(components(reqs[j].text))
      /\ C6_Flatten(reqs, 1) = components(base.text)
      /\ C6_Mass(reqs, 1) = base.mass_total

C6_Split ==
  last_op.op = "apply_events" =>
    \A k \in 1..Len(last_op.evs) :
      SplitApplied(last_op.pre, last_op.evs, k) =>
        /\ last_op.evs[k].id \notin Ids(words)
        /\ C6_SplitOf(WordOf(last_op.pre, last_op.evs[k].id), last_op.made[k])

\* apply_events has split a word that holds dust and has more components
\* than SPLIT_PARTS_MAX into SPLIT_PARTS_MAX parts
C6_Witness ==
  /\ last_op.op = "apply_events"
  /\ \E k \in 1..Len(last_op.evs) :
       /\ SplitApplied(last_op.pre, last_op.evs, k)
       /\ Len(last_op.made[k]) = SPLIT_PARTS_MAX
       /\ Len(components(WordOf(last_op.pre, last_op.evs[k].id).text)) > SPLIT_PARTS_MAX
       /\ RGt(WordOf(last_op.pre, last_op.evs[k].id).mass_dust, Zero)

\* C7: after consolidate_duplicates there is one word per text of the
\* collection; a word that stands for a group of words sharing its text
\* has the sums of their mass_visible, mass_dust and mass_total, and, when
\* that total is positive, their mass_total-weighted mean pos and vel; a
\* word whose text was unique is unchanged.
C7_Field(w, f) ==
  CASE f = "mass_visible" -> w.mass_visible
    [] f = "mass_dust"    -> w.mass_dust
    [] f = "mass_total"   -> w.mass_total
    [] f = "pos.x"        -> RMul(w.pos.x, w.mass_total)
    [] f = "pos.y"        -> RMul(w.pos.y, w.mass_total)
    [] f = "vel.x"        -> RMul(w.vel.x, w.mass_total)
    [] f = "vel.y"        -> RMul(w.vel.y, w.mass_total)

RECURSIVE C7_Sum(_, _, _, _)
C7_Sum(ws, text, f, k) ==
  IF k > Len(ws) THEN Zero
  ELSE RAdd(IF ws[k].text = text THEN C7_Field(ws[k], f) ELSE Zero, C7_Sum(ws, text, f, k + 1))

C7_GroupOf(pre, w) ==
  LET sum(f) == C7_Sum(pre, w.text, f, 1)
      total  == sum("mass_total")
  IN  /\ w.mass_visible = sum("mass_visible")
      /\ w.mass_dust = sum("mass_dust")
      /\ w.mass_total = total
      /\ RGt(total, Zero) =>
           /\ w.pos = Vec2(RDiv(sum("pos.x"), total), RDiv(sum("pos.y"), total))
           /\ w.vel = Vec2(RDiv(sum("vel.x"), total), RDiv(sum("vel.y"), total))

C7_Consolidated ==
  last_op.op = "consolidate_duplicates" =>
    LET pre == last_op.pre
    IN  /\ UniqueTexts(words)
        /\ {words[k].text : k \in 1..Len(words)} = {pre[k].text : k \in 1..Len(pre)}
        /\ \A k \in 1..Len(words) :
             LET group == IndicesWithText(pre, words[k].text)
             IN  IF Cardinality(group) = 1
                 THEN words[k] = pre[First(group)]
                 ELSE C7_GroupOf(pre, words[k])

\* the collection of the unit test: "A" of mass 10 at (0, 0) moving at
\* (1, 0) and "A" of mass 5 at (10, 0) moving at (-1, 0) have become one
\* word of mass 15 at (10/3, 0) moving at (1/3, 0)
C7_Witness ==
  /\ last_op.op = "consolidate_duplicates"
  /\ Len(last_op.pre) = 2
  /\ last_op.pre[1].mass_total = I(10) /\ last_op.pre[1].pos = VZERO
  /\ last_op.pre[2].mass_total = I(5) /\ last_op.pre[2].pos = Vec2(I(10), Zero)
  /\ Len(words) = 1
  /\ words[1].mass_total = I(15)
  /\ words[1].pos = Vec2(Rat(10, 3), Zero)
  /\ words[1].vel = Vec2(Rat(1, 3), Zero)

\* C8: events is empty whenever a tick returns; it holds events only
\* between resolve_collisions and apply_events of one tick.
C8_Drained ==
  pc # "apply_events" => events = <<>>

\* a tick has returned in which a Merge was queued and applied
C8_Witness ==
  /\ pc = "idle"
  /\ last_op.op = "update_effects"
  /\ HasEffect("+", "Yellow")
  /\ events = <<>>

\* C9: a word leaves words only in apply_events, named by a Merge whose two
\* words were live or by a Split it was eligible for, or in
\* consolidate_duplicates, where a word of its text remains; no other
\* call or operation removes a word.
C9_NamedBy(pre, evs, id) ==
  \E k \in 1..Len(evs) :
    \/ evs[k].type = "Merge" /\ id \in {evs[k].a, evs[k].b}
         /\ {evs[k].a, evs[k].b} \subseteq Ids(pre)
    \/ evs[k].type = "Split" /\ evs[k].id = id /\ Eligible(WordOf(pre, id))

C10_AddWord ==
  last_op.op = "add_word" =>
    LET pre  == last_op.pre
        text == last_op.args[1]
        m    == last_op.args[2]
        held == IndicesWithText(pre, text)
    IN  /\ TotalMass(words) = RAdd(TotalMass(pre), m)
        /\ IF held # {}
           THEN /\ Len(words) = Len(pre)
                /\ \E k \in held :
                     /\ words[k].id = pre[k].id
                     /\ words[k].text = text
                     /\ words[k].mass_total = RAdd(pre[k].mass_total, m)
                /\ \A k \in 1..Len(pre) : k \notin held => words[k] = pre[k]
           ELSE /\ Len(words) = Len(pre) + 1
                /\ SubSeq(words, 1, Len(pre)) = pre
                /\ LET new == words[Len(words)]
                   IN  /\ \A k \in 1..Len(pre) : new.id > pre[k].id
                       /\ new.text = text
                       /\ new.mass_total = m
                       /\ VisibleCount(pre) >= K_VISIBLE_MAX =>
                            /\ new.mass_visible = RMul(m, Rat(1, 4))
                            /\ new.mass_dust = RMul(m, Rat(3, 4))
                       /\ VisibleCount(pre) < K_VISIBLE_MAX =>
                            /\ new.mass_visible = m
                            /\ new.mass_dust = Zero

\* add_word has spawned a word while the visible population was at the ceiling
C10_Witness ==
  /\ last_op.op = "add_word"
  /\ VisibleCount(last_op.pre) >= K_VISIBLE_MAX
  /\ Len(words) = Len(last_op.pre) + 1

\* ------------------------------------------------------------------------
\* C11  snapshot(out) discards what out held and fills it with exactly one
\* entry per word whose mass_visible >= MIN_VISIBLE_MASS, in the order of
\* words, carrying the word's id, masses, position and velocity; a word
\* below the floor gets no entry; text_len is at most TEXT_MAX_DRAW; and
\* the world is left as it was.
\* ------------------------------------------------------------------------

C11_Step ==
  last_op'.op = "snapshot" =>
    LET out == last_op'.out
        vis == {k \in 1..Len(words) : RGe(words[k].mass_visible, MIN_VISIBLE_MASS)}
        nth(j) == CHOOSE k \in vis : Cardinality({i \in vis : i <= k}) = j
    IN  /\ Len(out) = Cardinality(vis)
        /\ \A j \in 1..Len(out) :
             /\ out[j].id = words[nth(j)].id
             /\ out[j].mass_visible = words[nth(j)].mass_visible
             /\ out[j].mass_dust = words[nth(j)].mass_dust
             /\ out[j].mass_total = words[nth(j)].mass_total
             /\ out[j].pos = words[nth(j)].pos
             /\ out[j].vel = words[nth(j)].vel
             /\ out[j].text_len <= TEXT_MAX_DRAW
        /\ \A k \in 1..Len(words) :
             RLt(words[k].mass_visible, MIN_VISIBLE_MASS) =>
               \A j \in 1..Len(out) : out[j].id # words[k].id
        /\ UNCHANGED <<words, events, spatial, sun, effects, effect_cursor, dust_pool,
                       next_id, text_index, word_indices>>

C11_Snapshot == [][C11_Step]_vars

\* a snapshot into a list that held an earlier frame, of a world in which
\* a word below the floor precedes a visible word whose text is longer
\* than TEXT_MAX_DRAW
C11_Witness ==
  /\ last_op.op = "snapshot"
  /\ last_op.args[1] # <<>>
  /\ \E k, l \in 1..Len(words) :
       /\ k < l
       /\ RLt(words[k].mass_visible, MIN_VISIBLE_MASS)
       /\ RGe(words[l].mass_visible, MIN_VISIBLE_MASS)
       /\ Len(words[l].text) > TEXT_MAX_DRAW
  /\ \E j \in 1..Len(last_op.out) : last_op.out[j].text_len = TEXT_MAX_DRAW

\* ------------------------------------------------------------------------
\* C12  The sun is a last-write-wins singleton: a new world has no sun;
\* after set_sun(c) the sun is the one sun with center c and the configured
\* radius and strength, whatever sun there was before; and set_sun leaves
\* the words (count, ids, texts, masses, positions, velocities) unchanged.
\* ------------------------------------------------------------------------

C12_Sun ==
  /\ last_op.op = "new" => sun = <<>>
  /\ last_op.op = "set_sun" =>
       /\ sun = <<[center |-> last_op.args[1], radius |-> SUN_PULSE_RADIUS,
                   strength |-> SUN_PULSE_STRENGTH]>>
       /\ words = last_op.pre

\* set_sun has replaced a sun with another center, in a world with words
C12_Witness ==
  /\ last_op.op = "set_sun"
  /\ last_op.sun # <<>>
  /\ last_op.sun[1].center # last_op.args[1]
  /\ sun[1].center = last_op.args[1]
  /\ words # <<>>

\* ------------------------------------------------------------------------
\* C13  The effect pool is bounded: after any sequence of set_sun, add_word
\* and tick calls the number of live particles is at most EFFECT_CAPACITY,
\* and a push at capacity writes inside the pool: the cursor is below
\* EFFECT_CAPACITY, and below the live count when the pool is full.
\* ------------------------------------------------------------------------

C13_Bounded ==
  /\ Len(effects) <= EFFECT_CAPACITY
  /\ effect_cursor < EFFECT_CAPACITY
  /\ Len(effects) = EFFECT_CAPACITY => effect_cursor < Len(effects)

\* the pool is full and a push at capacity has moved the cursor
C13_Witness ==
  /\ Len(effects) = EFFECT_CAPACITY
  /\ effect_cursor > 0
  /\ last_op.op \in {"add_word", "set_sun"}

\* ------------------------------------------------------------------------
\* C14  A push into a pool of fewer than EFFECT_CAPACITY particles appends;
\* a push into a full pool overwrites the oldest live particle and advances
\* the cursor by one modulo EFFECT_CAPACITY; after any interleaving of
\* pushes and expirations.  Every particle is pushed with the same ttl and
\* every tick takes the same dt from every live particle, so the oldest
\* particle is one of least ttl.  The pushes are those of the ring of
\* set_sun, from every reachable pool.
\* ------------------------------------------------------------------------

C14_PushOk(W, e) ==
  LET V == push_effect(W, e)
  IN  IF Len(W.effects) < EFFECT_CAPACITY
        THEN /\ V.effects = Append(W.effects, e)
             /\ V.effect_cursor = W.effect_cursor
        ELSE /\ \E k \in 1..Len(W.effects) :
                  /\ V.effects = [W.effects EXCEPT ![k] = e]
                  /\ \A j \in 1..Len(W.effects) : RLe(W.effects[k].ttl, W.effects[j].ttl)
             /\ V.effect_cursor = (W.effect_cursor + 1) % EFFECT_CAPACITY

C14_PushOldest ==
  \A i \in 0..9 :
    C14_PushOk(spawn_effect_ring(World, i, "*", "Cyan"), EffectParticle("*", "Cyan"))

\* ------------------------------------------------------------------------
\* C15  Each tick takes dt from the ttl of every particle and removes the
\* particles whose ttl is then not positive: after update_effects no live
\* particle has ttl <= 0 and effect_cursor is 0 or below the live count;
\* and if from some point on no particle is pushed, the pool becomes empty.
\* ------------------------------------------------------------------------

C15_Step ==
  last_op'.op = "update_effects" =>
    LET aged == [k \in 1..Len(effects) |-> [effects[k] EXCEPT !.ttl = RSub(@, tick_dt')]]
        positive(e) == RGt(e.ttl, Zero)
    IN  /\ effects' = SelectSeq(aged, positive)
        /\ \A k \in 1..Len(effects') : ~RLe(effects'[k].ttl, Zero)
        /\ effect_cursor' = 0 \/ effect_cursor' < Len(effects')

C15_Expiry ==
  /\ [][C15_Step]_vars
  /\ <>[][last_op'.op = "update_effects"]_vars => <>(effects = <<>>)

\* a tick has removed the particles of an earlier ring and kept those of a
\* later one
C15_Witness ==
  /\ last_op.op = "update_effects"
  /\ effects # <<>>
  /\ Len(effects) < EFFECT_CAPACITY
  /\ Len(effects) < 10 * suns

\* ------------------------------------------------------------------------
\* C16  After an integrate step every word is inside the world:
\* -WORLD_HALF_WIDTH <= x <= WORLD_HALF_WIDTH and -WORLD_HALF_HEIGHT <= y
\* <= WORLD_HALF_HEIGHT, wherever it was and however fast it moved before
\* the step; so a word driven at a wall by repeated steps stays inside.
\* ------------------------------------------------------------------------

C16_InBounds ==
  last_op.op = "integrate" =>
    \A k \in 1..Len(words) :
      /\ RLe(RNeg(WORLD_HALF_WIDTH), words[k].pos.x)
      /\ RLe(words[k].pos.x, WORLD_HALF_WIDTH)
      /\ RLe(RNeg(WORLD_HALF_HEIGHT), words[k].pos.y)
      /\ RLe(words[k].pos.y, WORLD_HALF_HEIGHT)

\* the second of two steps has put a word back on a wall through which
\* it was driven again, and the first step found it beyond a wall
C16_Witness ==
  /\ last_op.op = "integrate"
  /\ ticks = 2
  /\ \E k \in 1..Len(words) :
       /\ words[k].pos.x = WORLD_HALF_WIDTH
       /\ RGt(RAdd(last_op.pre[k].pos.x, RMul(last_op.pre[k].vel.x, tick_dt)), WORLD_HALF_WIDTH)
       /\ RLt(words[k].pos.y, Zero)

\* ------------------------------------------------------------------------
\* C17  Whenever integrate clamps a word to a wall on an axis, the velocity
\* on that axis becomes -BOUNCE_DAMP times what it was and no longer points
\* out of the world through that wall, for every position and velocity the
\* word can have before the step.
\* ------------------------------------------------------------------------

C17_Axis(p, v, w, half, dt) ==
  /\ RGt(RAdd(p, RMul(v, dt)), half) => w = RMul(RNeg(v), BOUNCE_DAMP) /\ RLe(w, Zero)
  /\ RLt(RAdd(p, RMul(v, dt)), RNeg(half)) => w = RMul(RNeg(v), BOUNCE_DAMP) /\ RGe(w, Zero)

C17_Reflected ==
  last_op.op = "integrate" =>
    \A k \in 1..Len(words) :
      /\ C17_Axis(last_op.pre[k].pos.x, last_op.pre[k].vel.x, words[k].vel.x,
                  WORLD_HALF_WIDTH, tick_dt)
      /\ C17_Axis(last_op.pre[k].pos.y, last_op.pre[k].vel.y, words[k].vel.y,
                  WORLD_HALF_HEIGHT, tick_dt)

\* ------------------------------------------------------------------------
\* C18  After rebuild(P), query_neighbors_range(pos, r) returns exactly the
\* indices i of P whose cell (floor(x / cell_size), floor(y / cell_size))
\* differs from the cell of pos by at most max(r, 0) on each axis, each
\* index once; so a query of range 0 returns the members of the cell of
\* pos, the result for r contains the result for r - 1, a negative r acts
\* as 0, and nothing of an earlier rebuild is returned.
\* ------------------------------------------------------------------------

C18_Cell(p, size) == <<RFloor(RDiv(p.x, size)), RFloor(RDiv(p.y, size))>>

C18_Near(p, q, size, r) ==
  /\ Abs(C18_Cell(p, size)[1] - C18_Cell(q, size)[1]) <= (IF r < 0 THEN 0 ELSE r)
  /\ Abs(C18_Cell(p, size)[2] - C18_Cell(q, size)[2]) <= (IF r < 0 THEN 0 ELSE r)

C18_Query ==
  last_op.op = "query_neighbors_range" =>
    LET size == last_op.args[1]
        P == last_op.args[2]
        pos == last_op.args[3]
        r == last_op.args[4]
        out == last_op.out
        found == {out[j] : j \in 1..Len(out)}
        less == query_neighbors_range(size, spatial, pos, r - 1)
    IN  /\ found = {i - 1 : i \in {k \in 1..Len(P) : C18_Near(P[k], pos, size, r)}}
        /\ Len(out) = Cardinality(found)
        /\ \A j \in 1..Len(less) : less[j] \in found
        /\ r <= 0 => \A i \in found : C18_Cell(P[i + 1], size) = C18_Cell(pos, size)

\* after a second rebuild, a query of range 1 that finds the point of its
\* own cell and one of a neighbouring cell, and leaves out a point two
\* cells away
C18_Witness ==
  /\ last_op.op = "query_neighbors_range"
  /\ ticks = 2
  /\ last_op.args[4] = 1
  /\ Len(last_op.out) = 2
  /\ Len(last_op.args[2]) = 3
  /\ \E k \in 1..3 : last_op.args[2][k] = last_op.args[3]

\* ------------------------------------------------------------------------
\* C19  SpatialHash::new(cell_size) panics with "cell_size must be positive
\* and finite", and returns no hash, when cell_size is zero, negative,
\* infinite or NaN; for a positive finite cell_size it returns a hash with
\* that cell_size and no cells.
\* ------------------------------------------------------------------------

C19_New ==
  last_op.op = "new" /\ pc \in {"idle", "panic"} /\ Len(last_op.args) = 1 =>
    IF last_op.args[1].d > 0 /\ last_op.args[1].n > 0
      THEN /\ pc = "idle"
           /\ last_op.out = [cell_size |-> last_op.args[1], cells |-> EmptyMap]
           /\ spatial = EmptyMap
      ELSE /\ pc = "panic"
           /\ last_op.out = [panic |-> "cell_size must be positive and finite"]

\* new has panicked on a NaN
C19_Witness ==
  /\ last_op.op = "new"
  /\ pc = "panic"
  /\ last_op.args = <<NAN>>

\* ------------------------------------------------------------------------
\* C20  World::new() seeds deterministically: two worlds built by new() and
\* driven by the same calls hold identical entity sets (ids, texts, masses,
\* positions, velocities) after every step.  Stated for the empty sequence
\* of calls: the entity set of a world that new() has just built is the
\* entity set of every world that new() can build.
\* ------------------------------------------------------------------------

C20_Entities(ws) ==
  {[id |-> ws[k].id, text |-> ws[k].text, mass_visible |-> ws[k].mass_visible,
    mass_dust |-> ws[k].mass_dust, mass_total |-> ws[k].mass_total,
    pos |-> ws[k].pos, vel |-> ws[k].vel] : k \in 1..Len(ws)}

C20_Deterministic ==
  last_op.op = "new" /\ pc = "idle" =>
    \A draws \in [1..INIT_WORDS -> InitDrawSet] :
      C20_Entities(NewWorld(draws).words) = C20_Entities(words)

\* ------------------------------------------------------------------------
\* C21  World::new() creates a population of fixed size: right after the
\* construction the number of words is INIT_WORDS, the text of each word is
\* one of word_list, and each position lies within the world bounds.
\* ------------------------------------------------------------------------

C21_InBounds(p) ==
  /\ RLe(RNeg(WORLD_HALF_WIDTH), p.x) /\ RLe(p.x, WORLD_HALF_WIDTH)
  /\ RLe(RNeg(WORLD_HALF_HEIGHT), p.y) /\ RLe(p.y, WORLD_HALF_HEIGHT)

C21_FixedSize ==
  last_op.op = "new" /\ pc = "idle" =>
    /\ Len(words) = INIT_WORDS
    /\ \A k \in 1..Len(words) :
         /\ \E e \in 1..Len(word_list) : word_list[e].text = words[k].text
         /\ C21_InBounds(words[k].pos)

\* ------------------------------------------------------------------------
\* C22  gravity_cutoff_weight(r, cutoff) with cutoff > 0 is exactly 1 for r
\* at or below cutoff * GRAVITY_CUTOFF_FADE_START, exactly 0 for r at or
\* beyond cutoff, and strictly between 0 and 1 and strictly decreasing in r
\* for r strictly between the two; for cutoff <= 0 it is 0 for every r.
\* The fade start is the f32 product the function itself compares with.
\* ------------------------------------------------------------------------

C22_Weight ==
  last_op.op = "gravity_cutoff_weight" =>
    LET r == last_op.args[1]
        r2 == last_op.args[2]
        cutoff == last_op.args[3]
        w == last_op.out[1]
        w2 == last_op.out[2]
        fade_start == F32Mul(cutoff, F32Of(GRAVITY_CUTOFF_FADE_START))
        between(x) == F32Lt(fade_start, x) /\ F32Lt(x, cutoff)
    IN  IF F32Le(cutoff, F32Zero) THEN w = F32Zero
        ELSE /\ F32Le(r, fade_start) => w = F32Int(1)
             /\ F32Ge(r, cutoff) => w = F32Zero
             /\ between(r) => F32Lt(F32Zero, w) /\ F32Lt(w, F32Int(1))
             /\ between(r) /\ between(r2) /\ F32Lt(r, r2) => F32Lt(w2, w)

\* ------------------------------------------------------------------------
\* C23  Merge takes precedence over Split in the classification of a
\* collision: for an overlapping pair that is classified (not both words
\* below MIN_VISIBLE_MASS) and whose relative speed is at or below
\* MERGE_REL_SPEED_MAX, resolve_collisions queues exactly one Merge event
\* for the pair and no Split event for either word, whatever the mass
\* ratio.  Stated for pairs that no third word overlaps, so that the pair is
\* classified as resolve_collisions found it.
\* ------------------------------------------------------------------------

CollisionOverlap(a, b) == RLt(length(VSub(b.pos, a.pos)), RAdd(a.radius, b.radius))

CollisionVisible(a, b) ==
  ~(RLt(a.mass_visible, MIN_VISIBLE_MASS) /\ RLt(b.mass_visible, MIN_VISIBLE_MASS))

\* words i < j of ws overlap, are classified, and overlap no other word
CollisionAlone(ws, i, j) ==
  /\ i < j
  /\ CollisionOverlap(ws[i], ws[j])
  /\ CollisionVisible(ws[i], ws[j])
  /\ \A k \in (1..Len(ws)) \ {i, j} :
       ~CollisionOverlap(ws[i], ws[k]) /\ ~CollisionOverlap(ws[j], ws[k])

CollisionRatio(a, b) ==
  IF RGt(a.mass_total, b.mass_total) THEN RDiv(a.mass_total, b.mass_total)
  ELSE RDiv(b.mass_total, a.mass_total)

CollisionCount(evs, ev) == Cardinality({k \in 1..Len(evs) : evs[k] = ev})

C24_Names(ev) == IF ev.type = "Merge" THEN {ev.a, ev.b} ELSE {ev.id}

RECURSIVE C24_Mass(_, _)
C24_Mass(reqs, k) ==
  IF k > Len(reqs) THEN Zero
  ELSE RAdd(RAdd(reqs[k].mass_visible, reqs[k].mass_dust), C24_Mass(reqs, k + 1))

\* the sum of mass_total over the words of pre with an id of ids
RECURSIVE C24_MassOf(_, _, _)
C24_MassOf(pre, ids, k) ==
  IF k > Len(pre) THEN Zero
  ELSE RAdd(IF pre[k].id \in ids THEN pre[k].mass_total ELSE Zero, C24_MassOf(pre, ids, k + 1))

\* the events that pushed a request
C24_Applied == {k \in 1..Len(last_op.evs) : last_op.made[k] # <<>>}

C24_ConsumedOnce ==
  last_op.op = "apply_events" =>
    /\ \A j, k \in C24_Applied :
         j < k => C24_Names(last_op.evs[j]) \cap C24_Names(last_op.evs[k]) = {}
    /\ last_op.consumed = UNION {C24_Names(last_op.evs[k]) : k \in C24_Applied}
    /\ \A k \in C24_Applied :
         C24_Mass(last_op.made[k], 1) = C24_MassOf(last_op.pre, C24_Names(last_op.evs[k]), 1)
    /\ Ids(last_op.pre) \ last_op.consumed \subseteq Ids(words)
    /\ Ids(words) \cap last_op.consumed = {}

\* a Merge has consumed a word, a later Split of that word and a later
\* Merge of it with a third word were skipped, and the third word is alive
C24_Witness ==
  /\ last_op.op = "apply_events"
  /\ \E j, k, l \in 1..Len(last_op.evs) :
       /\ j < k /\ j < l
       /\ last_op.evs[j].type = "Merge" /\ j \in C24_Applied
       /\ last_op.evs[k].type = "Split" /\ last_op.evs[k].id \in C24_Names(last_op.evs[j])
       /\ Eligible(WordOf(last_op.pre, last_op.evs[k].id))
       /\ last_op.evs[l].type = "Merge"
       /\ \E id \in C24_Names(last_op.evs[l]) :
            /\ id \notin last_op.consumed
            /\ id \in Ids(words)
            /\ C24_Names(last_op.evs[l]) \ {id} \subseteq C24_Names(last_op.evs[j])

\* a Split has consumed a word and a later Split of the same word was skipped
C24_WitnessSplit ==
  /\ last_op.op = "apply_events"
  /\ \E j, k \in 1..Len(last_op.evs) :
       /\ j < k
       /\ last_op.evs[j].type = "Split" /\ j \in C24_Applied
       /\ last_op.evs[k] = last_op.evs[j]

\* ------------------------------------------------------------------------
\* C25  For an overlapping pair with at least one word at or above
\* MIN_VISIBLE_MASS, of relative speed s and larger-to-smaller mass_total
\* ratio q, resolve_collisions queues one Merge{a, b} if
\* s <= MERGE_REL_SPEED_MAX; otherwise two Split events, one for each word,
\* if s >= SPLIT_REL_SPEED_MIN or q exceeds TIDAL_MASS_RATIO; otherwise no
\* event.  A pair is classified at most once, and a pair of two words below
\* the floor, or of words that do not overlap, queues nothing.  Stated for
\* pairs of words that overlap no third word, with s the speed before the
\* impulse.
\* ------------------------------------------------------------------------

\* no word other than i and j overlaps word i or word j
C25_Apart(ws, i, j) ==
  \A k \in (1..Len(ws)) \ {i, j} :
    ~CollisionOverlap(ws[i], ws[k]) /\ ~CollisionOverlap(ws[j], ws[k])

C25_Events(a, b) ==
  <<CollisionCount(events, Merge(a.id, b.id)) + CollisionCount(events, Merge(b.id, a.id)),
    CollisionCount(events, Split(a.id)), CollisionCount(events, Split(b.id))>>

C25_Classified ==
  last_op.op = "resolve_collisions" =>
    \A i, j \in 1..Len(last_op.pre) :
      i < j /\ C25_Apart(last_op.pre, i, j) =>
        LET a == last_op.pre[i]
            b == last_op.pre[j]
            s == length(VSub(b.vel, a.vel))
            q == CollisionRatio(a, b)
        IN  IF CollisionOverlap(a, b) /\ CollisionVisible(a, b)
            THEN IF RLe(s, MERGE_REL_SPEED_MAX)
                   THEN C25_Events(a, b) = <<1, 0, 0>>
                        /\ CollisionCount(events, Merge(a.id, b.id)) = 1
                 ELSE IF RGe(s, SPLIT_REL_SPEED_MIN) \/ RGt(q, TIDAL_MASS_RATIO)
                   THEN C25_Events(a, b) = <<0, 1, 1>>
                 ELSE C25_Events(a, b) = <<0, 0, 0>>
            ELSE C25_Events(a, b) = <<0, 0, 0>>

\* ------------------------------------------------------------------------
\* C26  The relative speed that resolve_collisions compares with the merge
\* and split thresholds is the speed after the impulse: the length of
\* b.vel - a.vel once the impulse of the contact has been applied to both
\* velocities.  Stated for an overlapping, classified pair that no third
\* word overlaps: a Merge is queued exactly if that speed is at or below
\* MERGE_REL_SPEED_MAX, and two Splits are queued if it is at or above
\* SPLIT_REL_SPEED_MIN.
\* ------------------------------------------------------------------------

C26_PostImpulse ==
  last_op.op = "resolve_collisions" =>
    \A i, j \in 1..Len(last_op.pre) :
      CollisionAlone(last_op.pre, i, j) =>
        LET a == last_op.pre[i]
            b == last_op.pre[j]
            after == length(VSub(words[j].vel, words[i].vel))
        IN  /\ CollisionCount(events, Merge(a.id, b.id)) = 1 <=> RLe(after, MERGE_REL_SPEED_MAX)
            /\ RGe(after, SPLIT_REL_SPEED_MIN) =>
                 /\ CollisionCount(events, Split(a.id)) = 1
                 /\ CollisionCount(events, Split(b.id)) = 1

\* ------------------------------------------------------------------------
\* C27  resolve_collisions never changes the set of words: it changes only
\* positions, velocities and the event queue, and leaves the number and
\* the order of the words and every id, text, mass and radius as they
\* were.  So every index that the spatial index built at the start of the
\* tick holds is an index into words throughout the gravity and collision
\* stages.
\* ------------------------------------------------------------------------

C27_Step ==
  pc = "resolve_collisions" /\ pc' = "apply_events" =>
    /\ Len(words') = Len(words)
    /\ \A k \in 1..Len(words) :
         words'[k] = [words[k] EXCEPT !.pos = words'[k].pos, !.vel = words'[k].vel]
    /\ UNCHANGED <<spatial, sun, effects, effect_cursor, dust_pool, next_id, text_index,
                   word_indices>>

\* between the rebuild of the spatial index and apply_events
C27_IndexValid ==
  pc \in {"apply_gravity_nearby", "integrate", "resolve_collisions", "apply_events"} =>
    \A key \in DOMAIN spatial :
      \A k \in 1..Len(spatial[key]) : spatial[key][k] \in 0..(Len(words) - 1)

C27_Frame == [][C27_Step]_vars /\ []C27_IndexValid

\* resolve_collisions has moved two words apart and queued their Merge
C27_Witness ==
  /\ last_op.op = "resolve_collisions"
  /\ \E k \in 1..Len(events) : events[k].type = "Merge"
  /\ \E k \in 1..Len(words) : words[k].pos # last_op.pre[k].pos
  /\ Len(words) >= 2
  /\ spatial # EmptyMap

\* ------------------------------------------------------------------------
\* C28  The identity indices agree with words after World::new() and after
\* every add_word and tick: text_index maps the text of each word to the id
\* of that word, word_indices maps the id of each word to its place in
\* words, and neither holds the id of a word that is gone.  Inside
\* apply_events the lookup of the id of a live word gives its place.
\* ------------------------------------------------------------------------

C28_Agree(ws, texts, places) ==
  /\ \A k \in 1..Len(ws) :
       /\ ws[k].text \in DOMAIN texts /\ texts[ws[k].text] = ws[k].id
       /\ ws[k].id \in DOMAIN places /\ places[ws[k].id] = k - 1
  /\ \A t \in DOMAIN texts : texts[t] \in Ids(ws)
  /\ DOMAIN places \subseteq Ids(ws)

C28_Indices ==
  /\ pc \in {"idle", "apply_events"} => C28_Agree(words, text_index, word_indices)
  /\ pc = "apply_events" =>
       \A k \in 1..Len(words) : find_index(World, words[k].id) = <<k - 1>>

\* apply_events has removed a word that was not the last, and a tick has
\* returned since
C28_Witness ==
  /\ pc = "idle"
  /\ ticks > 0
  /\ \E id \in 1..(next_id - 1) :
       /\ id \notin Ids(words)
       /\ \E k \in 1..Len(words) : words[k].id > id
  /\ C28_Agree(words, text_index, word_indices)

\* ------------------------------------------------------------------------
\* C29  A word below the mass floor is invisible to gravity sourcing: in
\* apply_gravity_nearby a word whose mass_visible is below MIN_VISIBLE_MASS
\* (which is GRAVITY_MIN_MASS) adds no acceleration to any other word.
\* C29_NoSource states it for a word all of whose fellow words are below
\* the floor: with no sun, apply_gravity_nearby leaves its velocity as it
\* was.  C29_FloorSource is the amended claim: a word below the floor
\* pulls as a word of mass_visible GRAVITY_MIN_MASS at its place does.
\* ------------------------------------------------------------------------

C29_Below(w) == RLt(w.mass_visible, MIN_VISIBLE_MASS)

C29_Raised(ws) ==
  [k \in 1..Len(ws) |->
     IF C29_Below(ws[k]) THEN [ws[k] EXCEPT !.mass_visible = GRAVITY_MIN_MASS] ELSE ws[k]]

C30_Amount(w, dt) == RMul(RMul(w.mass_dust, AUTOGENESIS_RATE), dt)

C30_Step ==
  pc = "autogenesis_step" =>
    IF VisibleCount(words) >= K_VISIBLE_MIN
    THEN UNCHANGED <<words, events, sun, effects, effect_cursor, dust_pool,
                     next_id, text_index, word_indices>>
    ELSE /\ Len(words') = Len(words)
         /\ \A k \in 1..Len(words) :
              /\ words'[k].id = words[k].id
              /\ RGt(words[k].mass_dust, Zero) =>
                   /\ words'[k].mass_visible
                        = RAdd(words[k].mass_visible, C30_Amount(words[k], tick_dt))
                   /\ words'[k].mass_dust
                        = RSub(words[k].mass_dust, C30_Amount(words[k], tick_dt))
                   /\ RGt(C30_Amount(words[k], tick_dt), Zero)

C30_Gated == [][C30_Step]_vars

\* autogenesis_step has run below the floor and has moved dust of a word
\* to its visible mass
C30_Witness ==
  /\ last_op.op = "autogenesis_step"
  /\ VisibleCount(last_op.pre) < K_VISIBLE_MIN
  /\ \E k \in 1..Len(words) :
       /\ k <= Len(last_op.pre)
       /\ RGt(last_op.pre[k].mass_dust, Zero)
       /\ RGt(words[k].mass_visible, last_op.pre[k].mass_visible)
       /\ RLt(words[k].mass_dust, last_op.pre[k].mass_dust)

\* ------------------------------------------------------------------------
\* C31  Inside tick the mass-exchange stage never changes the set of words:
\* weathering_step rebuilds dust_pool from the live words only and
\* text_index covers every live word, so autogenesis_step finds a live word
\* for each key that holds dust and never takes its spawn branch; the
\* number of words and their ids are the same before weathering_step and
\* after autogenesis_step.
\* ------------------------------------------------------------------------

C31_SameIds(before, after) ==
  /\ Len(after) = Len(before)
  /\ \A k \in 1..Len(before) : after[k].id = before[k].id

C31_NoSpawn ==
  /\ pc = "autogenesis_step" =>
       /\ SpawnKeys(World) = {}
       /\ DOMAIN dust_pool = {words[k].text : k \in 1..Len(words)}
  /\ last_op.op \in {"weathering_step", "autogenesis_step"} =>
       C31_SameIds(last_op.pre, words)

\* autogenesis_step has run its loop, below the population floor, in a
\* world from which a word had been removed: ids are no longer 1..Len(words)
C31_Witness ==
  /\ last_op.op = "autogenesis_step"
  /\ VisibleCount(last_op.pre) < K_VISIBLE_MIN
  /\ \E key \in DOMAIN dust_pool : RGt(dust_pool[key], Zero)
  /\ \E k \in 1..Len(words) : words[k].id > Len(words)

\* ------------------------------------------------------------------------
\* C32  dust_pool mirrors the words: after World::new() and after every
\* add_word and tick, dust_pool has exactly one key per text of a live word
\* and no other key, and the value under each key equals the mass_dust of
\* that word.
\* ------------------------------------------------------------------------

C32_Mirror ==
  pc = "idle" =>
    /\ DOMAIN dust_pool = {words[k].text : k \in 1..Len(words)}
    /\ \A k \in 1..Len(words) : dust_pool[words[k].text] = words[k].mass_dust

\* a tick has returned that removed a word and left dust in a live word
C32_Witness ==
  /\ pc = "idle"
  /\ ticks > 0
  /\ \E k \in 1..Len(words) : words[k].id > Len(words)
  /\ \E k \in 1..Len(words) :
       /\ RGt(words[k].mass_dust, Zero)
       /\ words[k].text \in DOMAIN dust_pool
       /\ dust_pool[words[k].text] = words[k].mass_dust

\* ------------------------------------------------------------------------
\* C33  A Split event for a word that is ineligible (can_split false,
\* mass_total <= 1, or a text of fewer than 2 components) is silently
\* skipped: apply_events pushes nothing for it and does not mark the word
\* consumed; unless a Merge of the same queue consumes it, the word stays
\* alive with the same id and text, and with the same masses unless a
\* request pushed by another event of the queue bears its text and is
\* absorbed into it; and a later Merge that names it, both of whose words
\* no applied event before it names, is applied.
\* ------------------------------------------------------------------------

\* the events of the queue that name an ineligible live word in a Split
C33_Ineligible ==
  {k \in 1..Len(last_op.evs) :
     /\ last_op.evs[k].type = "Split"
     /\ last_op.evs[k].id \in Ids(last_op.pre)
     /\ ~Eligible(WordOf(last_op.pre, last_op.evs[k].id))}

\* the ids named by the events before event l that were applied
C33_TakenBefore(l) ==
  UNION {C24_Names(last_op.evs[j]) : j \in {i \in C24_Applied : i < l}}

C33_SameWord(before, after) ==
  /\ after.id = before.id
  /\ after.text = before.text
  /\ after.mass_total = before.mass_total
  /\ after.mass_visible = before.mass_visible
  /\ after.mass_dust = before.mass_dust

C33_Skipped ==
  last_op.op = "apply_events" =>
    \A k \in C33_Ineligible :
      LET id == last_op.evs[k].id
      IN  /\ last_op.made[k] = <<>>
          /\ (\A j \in C24_Applied : id \notin C24_Names(last_op.evs[j])) =>
               /\ id \notin last_op.consumed
               /\ id \in Ids(words)
               /\ WordOf(words, id).text = WordOf(last_op.pre, id).text
               /\ (\A r \in 1..Len(last_op.to_add) :
                     last_op.to_add[r].text # WordOf(last_op.pre, id).text) =>
                    C33_SameWord(WordOf(last_op.pre, id), WordOf(words, id))
          /\ \A l \in 1..Len(last_op.evs) :
               (/\ l > k
                /\ last_op.evs[l].type = "Merge"
                /\ id \in C24_Names(last_op.evs[l])
                /\ C24_Names(last_op.evs[l]) \subseteq Ids(last_op.pre)
                /\ C24_Names(last_op.evs[l]) \cap C33_TakenBefore(l) = {})
                 => l \in C24_Applied

\* a Split of an ineligible word was skipped and a later Merge of that
\* word was applied
C33_Witness ==
  /\ last_op.op = "apply_events"
  /\ \E k \in C33_Ineligible : \E l \in C24_Applied :
       /\ l > k
       /\ last_op.evs[l].type = "Merge"
       /\ last_op.evs[k].id \in C24_Names(last_op.evs[l])

\* a Split of an ineligible word was skipped while another event was
\* applied, and the word is alive as it was
C33_WitnessAlive ==
  /\ last_op.op = "apply_events"
  /\ C24_Applied # {}
  /\ \E k \in C33_Ineligible :
       /\ last_op.evs[k].id \in Ids(words)
       /\ C33_SameWord(WordOf(last_op.pre, last_op.evs[k].id), WordOf(words, last_op.evs[k].id))

\* ------------------------------------------------------------------------
\* C34  At the end of every tick the position of every live word lies
\* within the world bounds, [-WORLD_HALF_WIDTH, WORLD_HALF_WIDTH] by
\* [-WORLD_HALF_HEIGHT, WORLD_HALF_HEIGHT]: the stages that run after
\* integrate never leave a word outside the bounds that integrate enforces.
\* ------------------------------------------------------------------------

C34_InBounds ==
  pc = "idle" /\ ticks > 0 =>
    \A k \in 1..Len(words) : C21_InBounds(words[k].pos)

\* ------------------------------------------------------------------------
\* C35  The sun pulse is transient: after set_sun has created a sun, a
\* finite number of further ticks, with no new set_sun, leads to a state in
\* which the world has no sun and the words within the radius of the former
\* sun are no longer pushed.  C35_Transient states it for a sun that exists
\* while ticks are still to come.  C35_Kept is what the steps do instead:
\* none of them takes a sun away.
\* ------------------------------------------------------------------------

C35_Kept == [][sun # <<>> => sun' # <<>>]_vars

\* ------------------------------------------------------------------------
\* C36  split_groups(components, parts), for a list of n >= 2 components,
\* returns k = min(max(parts, 2), n) groups that are non-empty and
\* contiguous: their components, concatenated in order, are the input list,
\* and their sizes differ by at most one with the larger groups first.
\* ------------------------------------------------------------------------

RECURSIVE C36_Flatten(_, _)
C36_Flatten(groups, k) ==
  IF k > Len(groups) THEN <<>> ELSE components(groups[k]) \o C36_Flatten(groups, k + 1)

C36_Count(n, parts) ==
  LET atLeast2 == IF parts > 2 THEN parts ELSE 2
  IN  IF atLeast2 < n THEN atLeast2 ELSE n

C36_Groups ==
  last_op.op = "split_groups" =>
    LET size(k) == Len(components(last_op.out[k]))
    IN  /\ Len(last_op.out) = C36_Count(Len(last_op.args[1]), last_op.args[2])
        /\ \A k \in 1..Len(last_op.out) : size(k) >= 1
        /\ C36_Flatten(last_op.out, 1) = last_op.args[1]
        /\ \A j, k \in 1..Len(last_op.out) :
             j < k => size(j) >= size(k) /\ size(j) - size(k) <= 1

\* four components asked to be split in three: the first group takes two
C36_Witness ==
  /\ last_op.op = "split_groups"
  /\ Len(last_op.args[1]) = 4
  /\ last_op.args[2] = 3
  /\ Len(last_op.out) = 3
  /\ Len(components(last_op.out[1])) = 2
  /\ Len(components(last_op.out[3])) = 1

\* ------------------------------------------------------------------------
\* C37  Radius is a function of total mass: after World::new() and after
\* every add_word and tick, the radius of each live word equals
\* WORD_RADIUS_BASE + WORD_RADIUS_SCALE * mass_total.
\* ------------------------------------------------------------------------

C37_Radius ==
  pc = "idle" =>
    \A k \in 1..Len(words) :
      words[k].radius = RAdd(WORD_RADIUS_BASE, RMul(WORD_RADIUS_SCALE, words[k].mass_total))

\* a tick has returned with a word that holds dust and has absorbed a
\* request: its mass_total is that of no entry of word_list
C37_Witness ==
  /\ pc = "idle"
  /\ ticks > 0
  /\ \E k \in 1..Len(words) :
       /\ RGt(words[k].mass_dust, Zero)
       /\ words[k].text \in {word_list[i].text : i \in 1..Len(word_list)}
       /\ \A i \in 1..Len(word_list) : RGt(words[k].mass_total, word_list[i].mass_total)

\* ------------------------------------------------------------------------
\* C38  The motion trail is a bounded ring: record_trail advances
\* trail_head by one modulo TRAIL_LEN, writes the position of the word at
\* the new head, and increments trail_len until it reaches TRAIL_LEN, where
\* it stays; so for every live word in every reachable state
\* trail_head < TRAIL_LEN and trail_len <= TRAIL_LEN, and right after an
\* integration step trail[trail_head] equals the position of the word.
\* ------------------------------------------------------------------------

C38_Recorded(before, after) ==
  /\ after.trail_head = (before.trail_head + 1) % TRAIL_LEN
  /\ after.trail[after.trail_head + 1] = after.pos
  /\ \A i \in (1..TRAIL_LEN) \ {after.trail_head + 1} : after.trail[i] = before.trail[i]
  /\ after.trail_len = IF before.trail_len < TRAIL_LEN THEN before.trail_len + 1 ELSE TRAIL_LEN

C38_Ring ==
  /\ \A k \in 1..Len(words) :
       /\ words[k].trail_head \in 0..(TRAIL_LEN - 1)
       /\ words[k].trail_len \in 0..TRAIL_LEN
       /\ DOMAIN words[k].trail = 1..TRAIL_LEN
  /\ last_op.op = "integrate" =>
       /\ Len(words) = Len(last_op.pre)
       /\ \A k \in 1..Len(words) : C38_Recorded(last_op.pre[k], words[k])

\* the head has wrapped from the last slot to the first, over a full trail
\* that held another position there
C38_Witness ==
  /\ last_op.op = "integrate"
  /\ last_op.pre[1].trail_head = TRAIL_LEN - 1
  /\ last_op.pre[1].trail_len = TRAIL_LEN
  /\ words[1].trail_head = 0
  /\ words[1].trail_len = TRAIL_LEN
  /\ words[1].trail[1] # last_op.pre[1].trail[1]
  /\ ticks > TRAIL_LEN

====
